---------------------------- MODULE Spec2Model ----------------------------
(***************************************************************************)
(* Model of the claude-neovim remote plugin: the server manager            *)
(* (claude-mcp.ts, src/unnamed/part_000), the per-session MCP tools        *)
(* (mcp-tools.ts) and the authenticated listener (ws-server.ts).           *)
(*                                                                         *)
(* Execution model.  The plugin host is a single-threaded event loop; the  *)
(* editor is a single-threaded RPC server.  A handler runs to completion   *)
(* up to its next `await` on the editor; the awaited request is appended  *)
(* to rpcQueue, the editor serves requests in the order they were issued,  *)
(* and the reply resumes the handler.  One step action (those of           *)
(* StartStep, SessionStep, DiffStep, CallStep, ...) = the editor executes  *)
(* the request at the head of rpcQueue and the handler's continuation      *)
(* runs up to its next await.  Editor-side events (user commands, edits,   *)
(* buffer wipeout) and socket events interleave freely between steps.  An  *)
(* await on an already settled promise is part of the block that reaches   *)
(* it.  Logger calls at the default INFO level are editor round trips      *)
(* (logger.ts write -> nvim.outWrite).                                     *)
(*                                                                         *)
(* Specifications.  Each one is a part of the plugin's behaviour: every    *)
(* behaviour of a specification is a behaviour of the plugin.              *)
(*   Spec          review of a diff with overlapping decisions             *)
(*   SpecEdit      Spec with the user's edits                              *)
(*   SpecStop      Spec with disconnects and ClaudeMcpServerStop;          *)
(*                 LiveSpec is SpecStop with fairness                      *)
(*   SpecListener  the listener with arbitrary upgrade requests;           *)
(*                 LiveListener is SpecListener with fairness              *)
(*   SpecServer    the start and stop commands in any order, overlapping   *)
(*                 starts on the one port, the lock file                   *)
(*   SpecHeartbeat the heartbeat timers and their failed probes;           *)
(*                 LiveHeartbeat is SpecHeartbeat with fairness            *)
(*   SpecNotify    selection tracking and at-mention, relayed to sessions  *)
(*   SpecOrder     probes and notifications written to one socket          *)
(*   SpecTools     openDiff calls of several sessions suspended together;  *)
(*                 LiveTools is SpecTools with fairness                    *)
(*   SpecFault     SpecNotify with sends that throw and failed probes      *)
(*   SpecTabs      close_tab and closeAllDiffTabs beside pending diffs     *)
(*   SpecCode      the opt-in flag, executeCode and the status command     *)
(*   SpecHalt      ClaudeMcpServerStop while the heartbeats go on          *)
(*   SpecTrack     selection tracking over buffers that are opened, left   *)
(*                 and wiped out                                           *)
(*                                                                         *)
(* Not modelled: the getDiagnostics tool, what executed Lua code does to   *)
(* the editor, overlapping stop() calls, the VimLeavePre autocmd, a port   *)
(* taken by another process, a buffer wiped out while a selection is       *)
(* being relayed, the tracking commands given a buffer number.             *)
(***************************************************************************)
EXTENDS Integers, Sequences, FiniteSets, TLC

\* ------------------------------------------------------------------ bounds
\* one manager (every specification but SpecServer), one session (the review
\* specifications and SpecOrder), one diff (the review specifications)
MaxStarts == 1      \* managers created by ClaudeMcpServerStart
MaxConns  == 1      \* websocket connection attempts that are accepted
MaxDiffs  == 1      \* openDiff tool calls
MaxCalls  == 2      \* accept/drop/wipeout handlers in flight at a time
MaxLen    == 1      \* length of new_file_contents, in characters
\* SpecServer, and the session specifications
MaxManagers == 2    \* managers created by ClaudeMcpServerStart
MaxSockets  == 2    \* websocket connection attempts that are accepted
MaxTools    == 2    \* openDiff tool calls, over all sessions
MaxNotes    == 2    \* selection / at-mention handlers in flight at a time
MaxPings    == 2    \* heartbeat probes per session
MaxEvents   == 2    \* selection / at-mention events
MaxWarns    == 1    \* refused commands whose warning is still being written
MaxCol      == 2    \* lines and columns of a cursor position
MaxTabCalls == 2    \* calls of the other tools, and status commands, in flight

NvimPid == 7        \* nvim.call('getpid')
PortArg == 10000    \* the port argument of every ClaudeMcpServerStart

MgrIds  == 1..MaxManagers
WsIds   == 1..MaxSockets
DiffIds == 1..MaxTools
CallIds == 1..MaxCalls
NoteIds == 1..MaxNotes
ToolIds == 1..MaxTabCalls
BufIds  == 1..(1 + MaxTools)

\* ----------------------------------------------------------------- strings
\* A string is a sequence of characters; "\n" is the line separator.
Alphabet == {"a", "\n"}
Contents == UNION {[1..n -> Alphabet] : n \in 0..MaxLen}

RECURSIVE Split(_)
\* String.prototype.split('\n')
Split(s) ==
  LET nl == {i \in 1..Len(s) : s[i] = "\n"} IN
  IF nl = {} THEN <<s>>
  ELSE LET i == CHOOSE j \in nl : \A k \in nl : j <= k IN
       <<SubSeq(s, 1, i - 1)>> \o Split(SubSeq(s, i + 1, Len(s)))

RECURSIVE Join(_)
\* Array.prototype.join('\n')
Join(ls) ==
  IF Len(ls) = 0 THEN <<>>
  ELSE IF Len(ls) = 1 THEN ls[1]
  ELSE ls[1] \o <<"\n">> \o Join(Tail(ls))

EmptyBufferLines == << <<>> >>     \* a fresh buffer holds one empty line

FilePaths == {"/a.txt", "/Makefile"}
\* path.extname(new_file_path).slice(1)
FileExt(p) == IF p = "/a.txt" THEN "txt" ELSE ""

\* a faulty variant of ChangeId: a key that leaves the buffer number out
ChangeId_PidOnly(pid, bufnr) == <<pid, 0>>

\* `${pid}/${bufnr}` and parseInt(changeId.split('/')[1])
ChangeId(pid, bufnr) == <<pid, bufnr>>
ParseBufnr(changeId) == changeId[2]

\* ------------------------------------------------------------------- state
VARIABLES
  \* editor
  bufs,            \* buffers that exist (nvim_list_bufs)
  nextBuf,         \* next buffer number nvim_create_buf hands out
  lines,           \* bufnr -> buffer text, a sequence of lines
  modified,        \* bufnr -> 'modified' option
  curBuf,          \* current buffer (nvim_get_current_buf)
  hook,            \* buffers with the BufWriteCmd -> ClaudeAccept autocmd
  cmdActivate,     \* :ClaudeActivateBufferDiff is defined
  cmdShow,         \* :ClaudeShowFileDiff is defined
  \* plugin host
  serverManager,   \* global serverManager: 0 (null) or a manager id
  nManagers,       \* managers constructed so far
  wss,             \* manager -> this.wss !== null
  listening,       \* manager -> its listener accepts upgrades
  clientServers,   \* manager -> Map keys in insertion order
  healthCheckIntervals, \* manager -> keys of the interval map
  timers,          \* sockets whose setInterval has not been cleared
  changeHandlers,  \* manager -> handlers, each named by its socket
  diffPromises,    \* socket -> records of the session's diffPromises map
  wsState,         \* socket -> readyState
  wsMgr,           \* socket -> manager whose listener accepted it
  transportUp,     \* sockets whose transport dispatches messages
  hc,              \* socket -> position of handleClient
  onclose,         \* socket -> position of the 'close' handler
  startPc,         \* manager -> position of start()
  stopH,           \* manager -> the stop() in flight
  diffs,           \* openDiff calls
  calls,           \* accept/drop/wipeout handlers
  rpcQueue,        \* editor requests awaiting execution, oldest first
  \* files, sockets, notifications
  lockFile,        \* ~/.claude/ide/<port>.lock: 0 (absent) or the token in it
  portError,       \* managers whose listener emitted 'error' (EADDRINUSE)
  stream,          \* socket -> messages ws.send has written, oldest first
  pingId,          \* socket -> pingId of its heartbeat closure
  probe,           \* socket -> fate of the heartbeat probe that failed, if any
  notes,           \* selection / at-mention handlers
  selectionTracking,    \* manager -> keys of the selectionTracking Map
  lastSelectionBuffer,  \* manager -> lastSelectionBuffer, 0 for null
  \* observation
  trueCount,       \* bufnr -> manager accept/drop calls that returned true
  lastUpgrade,     \* the latest upgrade decision of verifyClient
  lastCmd,         \* outcome of the latest ClaudeMcpServerStart / Stop
  nEvents,         \* CursorMoved / ClaudeMention events so far
  nRelay,          \* calls of sendSelectionChanged / sendEmptySelection / sendAtMention
  lastFanOut,      \* the latest fan-out loop: its manager, its notification, and
                   \* the socket whose send threw, if one did
  lastSent,        \* manager -> bufnr -> the latest selection_changed sent for it
  \* the other tools
  idePort,         \* g:claude_ide_port
  unsafeVar,       \* g:claude_unsafe_execute_lua
  unsafeExecuteLua,     \* socket -> the value handleClient read for it
  executeCode,     \* sockets whose session registered the executeCode tool
  unlisted,        \* buffers :bdelete has unloaded and taken off the list
  toolCalls,       \* close_tab / closeAllDiffTabs / executeCode handlers
  lastReply,       \* the latest result of such a tool call
  lastStatus       \* what the latest ClaudeMcpServerStatus reported

editorVars == <<bufs, nextBuf, lines, modified, curBuf, hook, cmdActivate, cmdShow>>
mgrVars == <<serverManager, nManagers, wss, listening, clientServers,
             healthCheckIntervals, timers, changeHandlers, startPc, stopH>>
wsVars == <<wsState, wsMgr, transportUp, hc, onclose>>
obsVars == <<trueCount, lastUpgrade>>
fileVars == <<lockFile, portError, idePort>>
hbVars == <<stream, pingId, probe>>
noteVars == <<notes, selectionTracking, lastSelectionBuffer, nEvents, nRelay,
              lastFanOut, lastSent>>
toolVars == <<unsafeVar, unsafeExecuteLua, executeCode, unlisted, toolCalls,
              lastReply, lastStatus>>
outVars == <<fileVars, hbVars, noteVars, toolVars, lastCmd>>
vars == <<bufs, nextBuf, lines, modified, curBuf, hook, cmdActivate, cmdShow,
          serverManager, nManagers, wss, listening, clientServers,
          healthCheckIntervals, timers, changeHandlers, diffPromises,
          wsState, wsMgr, transportUp, hc, onclose, startPc, stopH,
          diffs, calls, rpcQueue, trueCount, lastUpgrade,
          lockFile, portError, stream, pingId, probe, notes,
          selectionTracking, lastSelectionBuffer, lastCmd, nEvents, nRelay,
          lastFanOut, lastSent, idePort, unsafeVar, unsafeExecuteLua,
          executeCode, unlisted, toolCalls, lastReply, lastStatus>>

NoDiff == [pc |-> "idle", ws |-> 0, contents |-> <<>>,
           bufnr |-> 0, buffer |-> 0, result |-> <<>>, resolves |-> 0,
           named |-> FALSE]
NoCall == [pc |-> "idle", origin |-> "", kind |-> "", mgr |-> 0, bufnr |-> 0,
           h |-> 0, rec |-> 0, content |-> <<>>, saw |-> FALSE, read |-> FALSE]
NoStop == [pc |-> "idle", visited |-> {}, cur |-> 0, pending |-> {}]
NoUpgrade == [mgr |-> 0, header |-> 0, status |-> 0]
NoNote == [pc |-> "idle", kind |-> "", mgr |-> 0, bufnr |-> 0, n |-> 0]
NoFanOut == [mgr |-> 0, n |-> 0, threw |-> 0]
NoToolCall == [pc |-> "idle", tool |-> "", ws |-> 0, name |-> 0, bufnr |-> 0,
               isDiffBuffer |-> FALSE, seen |-> {}, closedCount |-> 0,
               pending |-> {}, warned |-> FALSE]
NoReply == [ws |-> 0, tool |-> "", text |-> "", name |-> 0, closedCount |-> 0,
            pending |-> {}]
NoStatus == [said |-> "", port |-> 0, clients |-> 0]

Init ==
  /\ bufs = {1} /\ nextBuf = 2 /\ curBuf = 1
  /\ lines = [b \in BufIds |-> EmptyBufferLines]
  /\ modified = [b \in BufIds |-> FALSE]
  /\ hook = {}
  /\ cmdActivate \in BOOLEAN /\ cmdShow \in BOOLEAN
  /\ serverManager = 0 /\ nManagers = 0
  /\ wss = [g \in MgrIds |-> FALSE]
  /\ listening = [g \in MgrIds |-> FALSE]
  /\ clientServers = [g \in MgrIds |-> <<>>]
  /\ healthCheckIntervals = [g \in MgrIds |-> {}]
  /\ timers = {}
  /\ changeHandlers = [g \in MgrIds |-> <<>>]
  /\ diffPromises = [w \in WsIds |-> {}]
  /\ wsState = [w \in WsIds |-> "NONE"]
  /\ wsMgr = [w \in WsIds |-> 0]
  /\ transportUp = {}
  /\ hc = [w \in WsIds |-> "none"]
  /\ onclose = [w \in WsIds |-> "none"]
  /\ startPc = [g \in MgrIds |-> "none"]
  /\ stopH = [g \in MgrIds |-> NoStop]
  /\ diffs = [d \in DiffIds |-> NoDiff]
  /\ calls = [c \in CallIds |-> NoCall]
  /\ rpcQueue = <<>>
  /\ trueCount = [b \in BufIds |-> 0]
  /\ lastUpgrade = NoUpgrade
  /\ lockFile = 0
  /\ portError = {}
  /\ stream = [w \in WsIds |-> <<>>]
  /\ pingId = [w \in WsIds |-> 0]
  /\ probe = [w \in WsIds |-> "none"]
  /\ notes = [h \in NoteIds |-> NoNote]
  /\ selectionTracking = [g \in MgrIds |-> {}]
  /\ lastSelectionBuffer = [g \in MgrIds |-> 0]
  /\ lastCmd = ""
  /\ nEvents = 0
  /\ nRelay = 0
  /\ lastFanOut = NoFanOut
  /\ lastSent = [g \in MgrIds |-> [b \in BufIds |-> "none"]]
  /\ idePort = 0
  /\ unsafeVar = "unset"
  /\ unsafeExecuteLua = [w \in WsIds |-> "none"]
  /\ executeCode = {}
  /\ unlisted = {}
  /\ toolCalls = [t \in ToolIds |-> NoToolCall]
  /\ lastReply = NoReply
  /\ lastStatus = NoStatus

\* ----------------------------------------------------------------- helpers
\* a faulty variant of Remove: a delete that leaves the entry where it is
Remove_Nothing(s, x) == s

\* Map.delete(x) on the key order s
Remove(s, x) == SelectSeq(s, LAMBDA y : y # x)
AtHead(h) == rpcQueue # <<>> /\ Head(rpcQueue) = h
\* the reply at the head resumes its handler, which may await again
Requeue(h) == Append(Tail(rpcQueue), h)
Dequeue == Tail(rpcQueue)

\* faulty variants of isRunning: a test that never, or always, says running
isRunning_Never(g) == FALSE
isRunning_Always(g) == TRUE

\* ClaudeMcpServerManager.isRunning
isRunning(g) == wss[g]
\* ClaudeMcpServerManager.getPort
getPort(g) == PortArg
\* a faulty variant of getClientCount: a count of the sessions ever set up
getClientCount_Handlers(g) == Len(changeHandlers[g])

\* ClaudeMcpServerManager.getClientCount
getClientCount(g) == Len(clientServers[g])
\* the guard every command starts with: serverManager && serverManager.isRunning()
ManagerRunning == serverManager # 0 /\ isRunning(serverManager)


\* ------------------------------------------------------- editor-side events
\* the user changes the text of a buffer
HumanEdit(b, c) ==
  /\ b \in bufs
  /\ Split(c) # lines[b]
  /\ lines' = [lines EXCEPT ![b] = Split(c)]
  /\ modified' = [modified EXCEPT ![b] = TRUE]
  /\ UNCHANGED <<bufs, nextBuf, curBuf, hook, cmdActivate, cmdShow>>
  /\ UNCHANGED <<mgrVars, wsVars, obsVars, outVars, diffPromises, diffs, calls, rpcQueue>>

\* the user moves to another buffer
SwitchBuffer(b) ==
  /\ b \in bufs /\ b # curBuf
  /\ curBuf' = b
  /\ UNCHANGED <<bufs, nextBuf, lines, modified, hook, cmdActivate, cmdShow>>
  /\ UNCHANGED <<mgrVars, wsVars, obsVars, outVars, diffPromises, diffs, calls, rpcQueue>>

\* the user opens another buffer and is in it
EditorNewBuffer ==
  /\ nextBuf \in BufIds
  /\ bufs' = bufs \cup {nextBuf}
  /\ nextBuf' = nextBuf + 1
  /\ curBuf' = nextBuf
  /\ UNCHANGED <<lines, modified, hook, cmdActivate, cmdShow>>
  /\ UNCHANGED <<mgrVars, wsVars, obsVars, outVars, diffPromises, diffs, calls, rpcQueue>>

FreeCalls == {c \in CallIds : calls[c].pc = "idle"}
NewCall == CHOOSE c \in FreeCalls : \A x \in FreeCalls : c <= x

\* what :bwipeout does to the editor
EditorWipe(b) ==
  /\ b \in bufs /\ bufs # {b}
  /\ bufs' = bufs \ {b}
  /\ curBuf' \in bufs'
  /\ (curBuf # b => curBuf' = curBuf)
  /\ hook' = hook \ {b}
  /\ lines' = [lines EXCEPT ![b] = EmptyBufferLines]
  /\ modified' = [modified EXCEPT ![b] = FALSE]
  /\ UNCHANGED <<nextBuf, cmdActivate, cmdShow>>

\* ------------------------------------------------------------- start()
\* header value that carries the token of manager g's listener (randomUUID)
authToken(g) == g

\* warnings of refused commands that the editor has not written yet
Warns == Len(SelectSeq(rpcQueue, LAMBDA r : r = <<"log">>))

\* the reply to a logger call nobody waits for, or that ends its handler
Log_Reply ==
  /\ AtHead(<<"log">>)
  /\ rpcQueue' = Dequeue
  /\ UNCHANGED <<editorVars, mgrVars, wsVars, obsVars, outVars, diffPromises, diffs, calls>>

\* Command ClaudeMcpServerStart up to the first await of start().  Every start
\* is given the same port argument.
CmdStart ==
  /\ ~ManagerRunning
  /\ nManagers < MaxManagers
  /\ LET g == nManagers + 1 IN
     /\ serverManager' = g
     /\ nManagers' = g
     /\ startPc' = [startPc EXCEPT ![g] = "getcwd"]
     /\ rpcQueue' = Append(rpcQueue, <<"start", g>>)
  /\ lastCmd' = "start"
  /\ UNCHANGED <<wss, listening, clientServers, healthCheckIntervals, timers,
                 changeHandlers, stopH>>
  /\ UNCHANGED <<fileVars, hbVars, noteVars, toolVars>>
  /\ UNCHANGED <<editorVars, wsVars, obsVars, diffPromises, diffs, calls>>

\* Command ClaudeMcpServerStart while a server is running:
\* await commandLogger.warn('Claude MCP Server is already running'); return
CmdStart_Running ==
  /\ ManagerRunning
  /\ Warns < MaxWarns
  /\ lastCmd' = "start: already running"
  /\ rpcQueue' = Append(rpcQueue, <<"log">>)
  /\ UNCHANGED <<fileVars, hbVars, noteVars, toolVars>>
  /\ UNCHANGED <<editorVars, mgrVars, wsVars, obsVars, diffPromises, diffs, calls>>

\* start(): getcwd replied; createClaudeWebSocketServer writes the lock file and
\* creates the listener; await setVar.  The port is free unless another listener
\* holds it; then the listener emits 'error', which start() only logs.
Start_Listen(g) ==
  /\ AtHead(<<"start", g>>) /\ startPc[g] = "getcwd"
  /\ wss' = [wss EXCEPT ![g] = TRUE]
  /\ lockFile' = authToken(g)
  /\ IF \E g2 \in MgrIds : listening[g2]
     THEN /\ portError' = portError \cup {g}
          /\ rpcQueue' = Append(Requeue(<<"start", g>>), <<"log">>)
          /\ UNCHANGED listening
     ELSE /\ listening' = [listening EXCEPT ![g] = TRUE]
          /\ rpcQueue' = Requeue(<<"start", g>>)
          /\ UNCHANGED portError
  /\ startPc' = [startPc EXCEPT ![g] = "setVar"]
  /\ UNCHANGED <<serverManager, nManagers, clientServers, healthCheckIntervals,
                 timers, changeHandlers, stopH>>
  /\ UNCHANGED <<idePort, hbVars, noteVars, toolVars, lastCmd>>
  /\ UNCHANGED <<editorVars, wsVars, obsVars, diffPromises, diffs, calls>>

\* start(): setVar and the two logger.info round trips
Start_Tail(g) ==
  /\ AtHead(<<"start", g>>) /\ startPc[g] \in {"setVar", "log_started", "log_lockfile"}
  /\ startPc' = [startPc EXCEPT ![g] =
        CASE startPc[g] = "setVar" -> "log_started"
          [] startPc[g] = "log_started" -> "log_lockfile"
          [] OTHER -> "done"]
  /\ rpcQueue' = IF startPc[g] = "log_lockfile" THEN Dequeue ELSE Requeue(<<"start", g>>)
  \* setVar('claude_ide_port', this.port)
  /\ idePort' = IF startPc[g] = "setVar" THEN getPort(g) ELSE idePort
  /\ UNCHANGED <<serverManager, nManagers, wss, listening, clientServers,
                 healthCheckIntervals, timers, changeHandlers, stopH>>
  /\ UNCHANGED <<lockFile, portError, hbVars, noteVars, toolVars, lastCmd>>
  /\ UNCHANGED <<editorVars, wsVars, obsVars, diffPromises, diffs, calls>>

\* ------------------------------------------------- listener and handleClient
Headers == {0, -1} \cup {authToken(g) : g \in MgrIds}   \* 0: absent, -1: a wrong token

\* a faulty variant of verifyClient: a listener that compares nothing
verifyClient_AcceptAll(g, authHeader) == TRUE

\* verifyClient of the listener of manager g
verifyClient(g, authHeader) == authHeader = authToken(g)

NewWs == Cardinality({w \in WsIds : wsState[w] # "NONE"}) + 1

\* an upgrade request reaches the listener of manager g
WsConnect(g, authHeader) ==
  /\ listening[g]
  /\ IF verifyClient(g, authHeader)
     THEN \* wss.on('connection'): handleClient up to await getVar
          /\ NewWs \in WsIds
          /\ wsState' = [wsState EXCEPT ![NewWs] = "OPEN"]
          /\ wsMgr' = [wsMgr EXCEPT ![NewWs] = g]
          /\ hc' = [hc EXCEPT ![NewWs] = "getVar"]
          /\ rpcQueue' = Append(rpcQueue, <<"hc", NewWs>>)
          /\ lastUpgrade' = [mgr |-> g, header |-> authHeader, status |-> 101]
     ELSE /\ lastUpgrade' = [mgr |-> g, header |-> authHeader, status |-> 401]
          /\ UNCHANGED <<wsState, wsMgr, hc, rpcQueue>>
  /\ UNCHANGED <<transportUp, onclose, trueCount>>
  /\ UNCHANGED <<editorVars, outVars, mgrVars, diffPromises, diffs, calls>>

\* a faulty variant of Truthy: a test every value passes
Truthy_Any(v) == TRUE

\* `if (unsafeExecuteLua)`: the variable is unset (getVar gives null), or holds
\* a falsy value (0, v:false), or a truthy one (1, v:true)
FlagValues == {"unset", "off", "on"}
Truthy(v) == v = "on"

\* handleClient: getVar replied.  A truthy flag is first reported with an awaited
\* logger.warn; then registerNvimMcpTools (with executeCode if the flag was
\* truthy), changeHandlers.push, mcpServer.connect(transport) ->
\* WebSocketTransport.start
HandleClient_Register(w) ==
  /\ AtHead(<<"hc", w>>) /\ hc[w] \in {"getVar", "log_unsafe"}
  /\ LET flag == IF hc[w] = "getVar" THEN unsafeVar ELSE unsafeExecuteLua[w] IN
     /\ unsafeExecuteLua' = [unsafeExecuteLua EXCEPT ![w] = flag]
     /\ IF hc[w] = "getVar" /\ Truthy(flag)
        THEN /\ hc' = [hc EXCEPT ![w] = "log_unsafe"]
             /\ UNCHANGED <<changeHandlers, transportUp, executeCode>>
        ELSE /\ executeCode' = IF Truthy(flag) THEN executeCode \cup {w}
                                              ELSE executeCode
             /\ changeHandlers' = [changeHandlers EXCEPT ![wsMgr[w]] = Append(@, w)]
             /\ IF wsState[w] = "OPEN"
                THEN /\ transportUp' = transportUp \cup {w}
                     /\ hc' = [hc EXCEPT ![w] = "log_connected"]
                ELSE \* start() rejects: catch, await logger.error
                     /\ hc' = [hc EXCEPT ![w] = "log_error"]
                     /\ UNCHANGED transportUp
  /\ rpcQueue' = Requeue(<<"hc", w>>)
  /\ UNCHANGED <<serverManager, nManagers, wss, listening, clientServers,
                 healthCheckIntervals, timers, startPc, stopH>>
  /\ UNCHANGED <<wsState, wsMgr, onclose>>
  /\ UNCHANGED <<fileVars, hbVars, noteVars, lastCmd>>
  /\ UNCHANGED <<unsafeVar, unlisted, toolCalls, lastReply, lastStatus>>
  /\ UNCHANGED <<editorVars, obsVars, diffPromises, diffs, calls>>

\* handleClient: 'Client connected' logged; clientServers.set, setInterval,
\* healthCheckIntervals.set, ws.on('close')
HandleClient_Store(w) ==
  /\ AtHead(<<"hc", w>>) /\ hc[w] = "log_connected"
  /\ clientServers' = [clientServers EXCEPT ![wsMgr[w]] = Append(@, w)]
  /\ healthCheckIntervals' = [healthCheckIntervals EXCEPT ![wsMgr[w]] = @ \cup {w}]
  /\ timers' = timers \cup {w}
  /\ hc' = [hc EXCEPT ![w] = "done"]
  /\ rpcQueue' = Dequeue
  /\ UNCHANGED <<serverManager, nManagers, wss, listening, changeHandlers, startPc, stopH>>
  /\ UNCHANGED <<wsState, wsMgr, transportUp, onclose>>
  /\ UNCHANGED <<editorVars, outVars, obsVars, diffPromises, diffs, calls>>

\* handleClient: the catch block, after logger.error: ws.close()
HandleClient_Catch(w) ==
  /\ AtHead(<<"hc", w>>) /\ hc[w] = "log_error"
  /\ hc' = [hc EXCEPT ![w] = "failed"]
  /\ wsState' = [wsState EXCEPT ![w] = IF @ = "OPEN" THEN "CLOSING" ELSE @]
  /\ rpcQueue' = Dequeue
  /\ UNCHANGED <<wsMgr, transportUp, onclose>>
  /\ UNCHANGED <<editorVars, outVars, mgrVars, obsVars, diffPromises, diffs, calls>>

\* a faulty variant of OnClose_Remove: a handler that also unregisters the
\* session's change handler and drops its pending records
OnClose_Remove_Handlers(w) ==
  /\ AtHead(<<"onclose", w>>) /\ onclose[w] = "log_disconnected"
  /\ LET g == wsMgr[w] IN
     /\ timers' = IF w \in healthCheckIntervals[g] THEN timers \ {w} ELSE timers
     /\ healthCheckIntervals' = [healthCheckIntervals EXCEPT ![g] = @ \ {w}]
     /\ clientServers' = [clientServers EXCEPT ![g] = Remove(@, w)]
     /\ changeHandlers' = [changeHandlers EXCEPT ![g] = Remove(@, w)]
  /\ diffPromises' = [diffPromises EXCEPT ![w] = {}]
  /\ onclose' = [onclose EXCEPT ![w] = "done"]
  /\ rpcQueue' = Dequeue
  /\ UNCHANGED <<serverManager, nManagers, wss, listening, startPc, stopH>>
  /\ UNCHANGED <<wsState, wsMgr, transportUp, hc>>
  /\ UNCHANGED <<editorVars, outVars, obsVars, diffs, calls>>

\* the 'close' handler registered by handleClient, after its logger.info
OnClose_Remove(w) ==
  /\ AtHead(<<"onclose", w>>) /\ onclose[w] = "log_disconnected"
  /\ LET g == wsMgr[w] IN
     /\ timers' = IF w \in healthCheckIntervals[g] THEN timers \ {w} ELSE timers
     /\ healthCheckIntervals' = [healthCheckIntervals EXCEPT ![g] = @ \ {w}]
     /\ clientServers' = [clientServers EXCEPT ![g] = Remove(@, w)]
  /\ onclose' = [onclose EXCEPT ![w] = "done"]
  /\ rpcQueue' = Dequeue
  /\ UNCHANGED <<serverManager, nManagers, wss, listening, changeHandlers, startPc, stopH>>
  /\ UNCHANGED <<wsState, wsMgr, transportUp, hc>>
  /\ UNCHANGED <<editorVars, outVars, obsVars, diffPromises, diffs, calls>>


\* ---------------------------------------------------------------- heartbeat
\* faulty variants: a readyState test that always passes, and a failure
\* handler that forgets clearInterval
IsOpen_Always(w) == TRUE
HealthCheckFailed_KeepTimer(w) ==
  /\ wsState' = [wsState EXCEPT ![w] = IF @ = "OPEN" THEN "CLOSING" ELSE @]
  /\ rpcQueue' = Append(rpcQueue, <<"log">>)
  /\ probe' = [probe EXCEPT ![w] = "handled"]
  /\ UNCHANGED timers

\* ws.readyState === WebSocket.OPEN
IsOpen(w) == wsState[w] = "OPEN"

\* a faulty variant of Write: a send that overtakes what was sent before
Write_Front(w, m) == <<m>> \o stream[w]

\* ws.send(m) on an open socket: m goes on the wire behind what was sent before
Write(w, m) == Append(stream[w], m)

\* 'Ping failed, close connection': logger.warn (not awaited),
\* clearInterval(healthCheckInterval), ws.close()
HealthCheckFailed(w) ==
  /\ timers' = timers \ {w}
  /\ wsState' = [wsState EXCEPT ![w] = IF @ = "OPEN" THEN "CLOSING" ELSE @]
  /\ rpcQueue' = Append(rpcQueue, <<"log">>)
  /\ probe' = [probe EXCEPT ![w] = "handled"]

\* a tick of the interval of socket w on an open socket: ws.send(ping, cb).
\* The probe is written, or send throws, or its callback will report an error.
Tick(w) ==
  /\ w \in timers /\ IsOpen(w)
  /\ pingId[w] < MaxPings
  /\ pingId' = [pingId EXCEPT ![w] = @ + 1]
  /\ \/ /\ stream' = [stream EXCEPT ![w] = Write(w, <<"ping", pingId[w]>>)]
        /\ UNCHANGED <<probe, timers, wsState, rpcQueue>>
     \/ /\ HealthCheckFailed(w)
        /\ UNCHANGED stream
     \/ /\ probe[w] = "none"
        /\ probe' = [probe EXCEPT ![w] = "failed"]
        /\ UNCHANGED <<stream, timers, wsState, rpcQueue>>
  /\ UNCHANGED <<serverManager, nManagers, wss, listening, clientServers,
                 healthCheckIntervals, changeHandlers, startPc, stopH>>
  /\ UNCHANGED <<wsMgr, transportUp, hc, onclose>>
  /\ UNCHANGED <<editorVars, obsVars, fileVars, noteVars, toolVars, lastCmd,
               diffPromises, diffs, calls>>

\* a tick of the interval of socket w on a socket that is not open: the
\* callback tests readyState and returns
Tick_NotOpen(w) ==
  /\ w \in timers /\ ~IsOpen(w)
  /\ UNCHANGED vars

\* the callback of ws.send reports an error
ProbeFailed(w) ==
  /\ probe[w] = "failed"
  /\ HealthCheckFailed(w)
  /\ UNCHANGED <<serverManager, nManagers, wss, listening, clientServers,
                 healthCheckIntervals, changeHandlers, startPc, stopH>>
  /\ UNCHANGED <<wsMgr, transportUp, hc, onclose, stream, pingId>>
  /\ UNCHANGED <<editorVars, obsVars, fileVars, noteVars, toolVars, lastCmd,
               diffPromises, diffs, calls>>

\* ------------------------------------------- selection and at-mention relay
FreeNotes == {h \in NoteIds : notes[h].pc = "idle"}
NewNote == CHOOSE h \in FreeNotes : \A x \in FreeNotes : h <= x

noteFrame == <<editorVars, mgrVars, wsVars, obsVars, fileVars, pingId, probe,
               toolVars, lastCmd, diffPromises, diffs, calls>>

\* a handler that starts with `await plugin.nvim.buffer`
NoteStart(kind) ==
  /\ ManagerRunning /\ FreeNotes # {}
  /\ notes' = [notes EXCEPT ![NewNote] = [NoNote EXCEPT !.pc = "buffer", !.kind = kind]]
  /\ rpcQueue' = Append(rpcQueue, <<"note", NewNote>>)
  /\ UNCHANGED <<stream, selectionTracking, lastSelectionBuffer, nRelay, lastFanOut, lastSent, noteFrame>>

\* autocmd CursorMoved / CursorMovedI / TextYankPost
CursorMoved ==
  /\ nEvents < MaxEvents /\ nEvents' = nEvents + 1
  /\ NoteStart("selection")

\* Command ClaudeMention
CmdClaudeMention ==
  /\ nEvents < MaxEvents /\ nEvents' = nEvents + 1
  /\ NoteStart("mention")

\* Commands ClaudeStartSelectionTracking / ClaudeStopSelectionTracking, no argument
CmdStartSelectionTracking == NoteStart("track") /\ UNCHANGED nEvents
CmdStopSelectionTracking == NoteStart("untrack") /\ UNCHANGED nEvents

\* the handler returns, or its rejection is dropped
NoteEnd(h) ==
  /\ notes' = [notes EXCEPT ![h] = NoNote]
  /\ rpcQueue' = Dequeue

NoteTo(h, pc) ==
  /\ notes' = [notes EXCEPT ![h].pc = pc]
  /\ rpcQueue' = Requeue(<<"note", h>>)

\* the relay function is entered: the notification gets its place in call order
NoteCall(h, g, bufnr) ==
  /\ nRelay' = nRelay + 1
  /\ notes' = [notes EXCEPT ![h].pc = "buffers", ![h].mgr = g, ![h].bufnr = bufnr,
                            ![h].n = nRelay + 1]
  /\ rpcQueue' = Requeue(<<"note", h>>)

\* a faulty variant of Tracked: every buffer counts as tracked
Tracked_Any(g, bufnr) == TRUE

\* this.selectionTracking.has(bufnr) of manager g
Tracked(g, bufnr) == bufnr \in selectionTracking[g]

\* plugin.nvim.buffer replied: handleSelectionUpdate -> sendSelectionChanged up
\* to await nvim.buffers; startSelectionTracking; stopSelectionTracking ->
\* sendEmptySelection up to await nvim.buffers; ClaudeMention: await buffer.name
Note_Buffer(h) ==
  /\ AtHead(<<"note", h>>) /\ notes[h].pc = "buffer"
  /\ LET g == serverManager
         kind == notes[h].kind
     IN CASE kind = "mention" ->
               /\ NoteTo(h, "name")
               /\ UNCHANGED <<selectionTracking, lastSelectionBuffer, nRelay>>
          [] kind = "selection" ->
               /\ IF g = 0 \/ ~Tracked(g, curBuf) \/ ~wss[g]
                  THEN NoteEnd(h) /\ UNCHANGED nRelay
                  ELSE NoteCall(h, g, curBuf)
               /\ UNCHANGED <<selectionTracking, lastSelectionBuffer>>
          [] kind = "track" ->
               /\ IF g = 0
                  THEN NoteTo(h, "log") /\ UNCHANGED selectionTracking
                  ELSE IF Tracked(g, curBuf)
                  THEN NoteEnd(h) /\ UNCHANGED selectionTracking
                  ELSE /\ selectionTracking' = [selectionTracking EXCEPT ![g] = @ \cup {curBuf}]
                       /\ NoteTo(h, "log")
               /\ UNCHANGED <<lastSelectionBuffer, nRelay>>
          [] OTHER ->
               IF g = 0
               THEN NoteTo(h, "log") /\ UNCHANGED <<selectionTracking, lastSelectionBuffer, nRelay>>
               ELSE IF ~Tracked(g, curBuf)
               THEN NoteEnd(h) /\ UNCHANGED <<selectionTracking, lastSelectionBuffer, nRelay>>
               ELSE /\ selectionTracking' = [selectionTracking EXCEPT ![g] = @ \ {curBuf}]
                    /\ IF lastSelectionBuffer[g] # curBuf
                       THEN NoteTo(h, "log") /\ UNCHANGED <<lastSelectionBuffer, nRelay>>
                       ELSE IF ~wss[g]
                       THEN /\ lastSelectionBuffer' = [lastSelectionBuffer EXCEPT ![g] = 0]
                            /\ NoteTo(h, "log") /\ UNCHANGED nRelay
                       ELSE NoteCall(h, g, curBuf) /\ UNCHANGED lastSelectionBuffer
  /\ UNCHANGED <<stream, nEvents, lastFanOut, lastSent, noteFrame>>

\* the relay returns without sending: back in the autocmd or the command
NoteReturn(h) ==
  IF notes[h].kind = "selection"
  THEN NoteEnd(h) /\ UNCHANGED lastSelectionBuffer
  ELSE /\ lastSelectionBuffer' = [lastSelectionBuffer EXCEPT ![notes[h].mgr] = 0]
       /\ NoteTo(h, "log")

\* nvim.buffers replied: buffers.find; await buffer.name
Note_Buffers(h) ==
  /\ AtHead(<<"note", h>>) /\ notes[h].pc = "buffers"
  /\ IF notes[h].bufnr \in bufs
     THEN NoteTo(h, "name") /\ UNCHANGED lastSelectionBuffer
     ELSE NoteReturn(h)
  /\ UNCHANGED <<stream, selectionTracking, nEvents, nRelay, lastFanOut, lastSent, noteFrame>>

\* buffer.name replied, with a file path or empty
Note_Name(h) ==
  /\ AtHead(<<"note", h>>) /\ notes[h].pc = "name"
  /\ \E named \in BOOLEAN :
       CASE notes[h].kind = "mention" ->
              /\ NoteTo(h, IF named THEN "getpos1" ELSE "log")
              /\ UNCHANGED lastSelectionBuffer
         [] notes[h].kind = "selection" ->
              IF named THEN NoteTo(h, "mode") /\ UNCHANGED lastSelectionBuffer
              ELSE NoteReturn(h)
         [] OTHER ->
              IF named THEN NoteTo(h, "getcurpos") /\ UNCHANGED lastSelectionBuffer
              ELSE NoteReturn(h)
  /\ UNCHANGED <<stream, selectionTracking, nEvents, nRelay, lastFanOut, lastSent, noteFrame>>

\* nvim.mode replied: visual or not
Note_Mode(h) ==
  /\ AtHead(<<"note", h>>) /\ notes[h].pc = "mode"
  /\ \E isVisual \in BOOLEAN : NoteTo(h, IF isVisual THEN "getpos_v" ELSE "getcurpos")
  /\ UNCHANGED <<stream, selectionTracking, lastSelectionBuffer, nEvents, nRelay,
                 lastFanOut, lastSent, noteFrame>>

\* getpos('v'), getcurpos in visual mode, getpos("'<") replied
Note_Await(h) ==
  /\ AtHead(<<"note", h>>) /\ notes[h].pc \in {"getpos_v", "getcurpos_v", "getpos1"}
  /\ NoteTo(h, CASE notes[h].pc = "getpos_v" -> "getcurpos_v"
                  [] notes[h].pc = "getcurpos_v" -> "getline"
                  [] OTHER -> "getpos2")
  /\ UNCHANGED <<stream, selectionTracking, lastSelectionBuffer, nEvents, nRelay,
                 lastFanOut, lastSent, noteFrame>>

\* for (const ws of this.clientServers.keys()) if (ws.readyState === ws.OPEN) ws.send(str)
FanOut(g, n) ==
  /\ stream' = [w \in WsIds |->
        IF (\E i \in 1..Len(clientServers[g]) : clientServers[g][i] = w) /\ IsOpen(w)
        THEN Write(w, <<"note", n>>) ELSE stream[w]]
  /\ lastFanOut' = [mgr |-> g, n |-> n, threw |-> 0]

\* positions getpos('v') and getcurpos reply with: <<line, col>>, from 1
Positions == (1..MaxCol) \X (1..MaxCol)

\* sendSelectionChanged in visual mode: the ends are put in order, start is
\* {line - 1, col - 1}, end is {line - 1, col}, and isEmpty compares the two
IsEmptySelection(startPos, endPos) ==
  LET swap == \/ startPos[1] > endPos[1]
              \/ (startPos[1] = endPos[1] /\ startPos[2] > endPos[2])
      from == IF swap THEN endPos ELSE startPos
      to == IF swap THEN startPos ELSE endPos
  IN from[1] - 1 = to[1] - 1 /\ from[2] - 1 = to[2]

\* the loop of manager g has a session to send to
Reaches(g) ==
  \E i \in 1..Len(clientServers[g]) : IsOpen(clientServers[g][i])

\* the last reply before the loop: getline or getcurpos in sendSelectionChanged,
\* getcurpos in sendEmptySelection; logger.debug returns at once; the loop
Note_Send(h) ==
  /\ AtHead(<<"note", h>>) /\ notes[h].pc \in {"getline", "getcurpos"}
  /\ FanOut(notes[h].mgr, notes[h].n)
  /\ LET g == notes[h].mgr
         bufnr == notes[h].bufnr
     IN IF notes[h].kind = "selection"
        THEN /\ lastSelectionBuffer' = [lastSelectionBuffer EXCEPT ![g] = bufnr]
             /\ \E startPos \in Positions, endPos \in Positions :
                  LET isEmpty == IF notes[h].pc = "getline"
                                 THEN IsEmptySelection(startPos, endPos) ELSE TRUE
                  IN lastSent' = IF Reaches(g)
                                 THEN [lastSent EXCEPT ![g][bufnr] =
                                         IF isEmpty THEN "empty" ELSE "nonempty"]
                                 ELSE lastSent
             /\ NoteEnd(h)
        ELSE /\ lastSelectionBuffer' = [lastSelectionBuffer EXCEPT ![g] = 0]
             /\ lastSent' = IF Reaches(g)
                            THEN [lastSent EXCEPT ![g][bufnr] = "empty"] ELSE lastSent
             /\ NoteTo(h, "log")
  /\ UNCHANGED <<selectionTracking, nEvents, nRelay, noteFrame>>

\* ClaudeMention: getpos("'>") replied; without marks warn; else
\* serverManager.sendAtMention: the loop; await commandLogger.info
Note_Mention(h) ==
  /\ AtHead(<<"note", h>>) /\ notes[h].pc = "getpos2"
  /\ \E marks \in BOOLEAN :
       IF marks /\ serverManager # 0 /\ wss[serverManager]
       THEN /\ nRelay' = nRelay + 1
            /\ FanOut(serverManager, nRelay + 1)
       ELSE UNCHANGED <<nRelay, stream, lastFanOut>>
  /\ NoteTo(h, "log")
  /\ UNCHANGED <<selectionTracking, lastSelectionBuffer, nEvents, lastSent, noteFrame>>

\* the loop when ws.send throws on the i-th key of the Map: the keys before it
\* have been served, the loop ends there
FanOut_Throws(g, n, i) ==
  /\ i \in 1..Len(clientServers[g]) /\ IsOpen(clientServers[g][i])
  /\ stream' = [w \in WsIds |->
        IF (\E j \in 1..(i - 1) : clientServers[g][j] = w) /\ IsOpen(w)
        THEN Write(w, <<"note", n>>) ELSE stream[w]]
  /\ lastFanOut' = [mgr |-> g, n |-> n, threw |-> clientServers[g][i]]

\* sendSelectionChanged / sendEmptySelection when ws.send throws in the loop:
\* catch, logger.warn (not awaited), return; lastSelectionBuffer = bufnr is
\* skipped.  stopSelectionTracking goes on: lastSelectionBuffer = null, await
\* logger.info
Note_Send_Throws(h) ==
  /\ AtHead(<<"note", h>>) /\ notes[h].pc \in {"getline", "getcurpos"}
  /\ \E i \in 1..MaxSockets : FanOut_Throws(notes[h].mgr, notes[h].n, i)
  /\ IF notes[h].kind = "selection"
     THEN /\ notes' = [notes EXCEPT ![h] = NoNote]
          /\ rpcQueue' = Append(Dequeue, <<"log">>)
          /\ UNCHANGED lastSelectionBuffer
     ELSE /\ lastSelectionBuffer' = [lastSelectionBuffer EXCEPT ![notes[h].mgr] = 0]
          /\ notes' = [notes EXCEPT ![h].pc = "log"]
          /\ rpcQueue' = Append(Append(Dequeue, <<"log">>), <<"note", h>>)
  /\ UNCHANGED <<selectionTracking, nEvents, nRelay, lastSent, noteFrame>>

\* ClaudeMention when ws.send throws in the loop of sendAtMention: the
\* command's catch, await commandLogger.error
Note_Mention_Throws(h) ==
  /\ AtHead(<<"note", h>>) /\ notes[h].pc = "getpos2"
  /\ serverManager # 0 /\ wss[serverManager]
  /\ nRelay' = nRelay + 1
  /\ \E i \in 1..MaxSockets : FanOut_Throws(serverManager, nRelay + 1, i)
  /\ NoteTo(h, "log")
  /\ UNCHANGED <<selectionTracking, lastSelectionBuffer, nEvents, lastSent, noteFrame>>

\* the handler's last logger round trip
Note_Log(h) ==
  /\ AtHead(<<"note", h>>) /\ notes[h].pc = "log"
  /\ NoteEnd(h)
  /\ UNCHANGED <<stream, selectionTracking, lastSelectionBuffer, nEvents, nRelay,
                 lastFanOut, lastSent, noteFrame>>

\* ------------------------------------------------------------ openDiff tool
FreeDiffs == {d \in DiffIds : diffs[d].pc = "idle"}
NewDiff == CHOOSE d \in FreeDiffs : \A x \in FreeDiffs : d <= x

diffFrame == <<mgrVars, wsVars, obsVars, outVars, calls>>

\* a tools/call for openDiff arrives on session w; await nvim_create_buf
OpenDiff_Call(w, c) ==
  /\ w \in transportUp /\ wsState[w] = "OPEN"
  /\ FreeDiffs # {}
  /\ diffs' = [diffs EXCEPT ![NewDiff] =
        [NoDiff EXCEPT !.pc = "create_buf", !.ws = w, !.contents = c]]
  /\ rpcQueue' = Append(rpcQueue, <<"diff", NewDiff>>)
  /\ UNCHANGED <<editorVars, diffPromises, diffFrame>>

\* nvim_create_buf(true, false) replied; await getpid
OpenDiff_CreateBuf(d) ==
  /\ AtHead(<<"diff", d>>) /\ diffs[d].pc = "create_buf"
  /\ bufs' = bufs \cup {nextBuf}
  /\ nextBuf' = nextBuf + 1
  /\ diffs' = [diffs EXCEPT ![d].bufnr = nextBuf, ![d].pc = "getpid"]
  /\ rpcQueue' = Requeue(<<"diff", d>>)
  /\ UNCHANGED <<lines, modified, curBuf, hook, cmdActivate, cmdShow>>
  /\ UNCHANGED <<diffPromises, diffFrame>>

\* getpid replied; await commandExists('ClaudeActivateBufferDiff')
OpenDiff_GetPid(d) ==
  /\ AtHead(<<"diff", d>>) /\ diffs[d].pc = "getpid"
  /\ diffs' = [diffs EXCEPT ![d].pc = "exists_activate"]
  /\ rpcQueue' = Requeue(<<"diff", d>>)
  /\ UNCHANGED <<editorVars, diffPromises, diffFrame>>

\* exists(':ClaudeActivateBufferDiff') replied; await the command or nvim.buffer
OpenDiff_ExistsActivate(d) ==
  /\ AtHead(<<"diff", d>>) /\ diffs[d].pc = "exists_activate"
  /\ diffs' = [diffs EXCEPT ![d].pc = IF cmdActivate THEN "activate" ELSE "get_buffer"]
  /\ rpcQueue' = Requeue(<<"diff", d>>)
  /\ UNCHANGED <<editorVars, diffPromises, diffFrame>>

\* :ClaudeActivateBufferDiff {bufnr} ran (README: `buffer {bufnr}` if valid)
OpenDiff_Activate(d) ==
  /\ AtHead(<<"diff", d>>) /\ diffs[d].pc = "activate"
  /\ curBuf' = IF diffs[d].bufnr \in bufs THEN diffs[d].bufnr ELSE curBuf
  /\ diffs' = [diffs EXCEPT ![d].pc = "get_buffer"]
  /\ rpcQueue' = Requeue(<<"diff", d>>)
  /\ UNCHANGED <<bufs, nextBuf, lines, modified, hook, cmdActivate, cmdShow>>
  /\ UNCHANGED <<diffPromises, diffFrame>>

\* const buffer = await nvim.buffer: the current buffer
OpenDiff_GetBuffer(d) ==
  /\ AtHead(<<"diff", d>>) /\ diffs[d].pc = "get_buffer"
  /\ diffs' = [diffs EXCEPT ![d].buffer = curBuf, ![d].pc = "set_buftype"]
  /\ rpcQueue' = Requeue(<<"diff", d>>)
  /\ UNCHANGED <<editorVars, diffPromises, diffFrame>>

\* `buf.name = tab_name` on the buffer numbered bufnr is a request nobody
\* awaits: the editor runs it ahead of the handler's next request, the one that
\* follows nvim.buffers, and it fails unseen if that buffer is gone.  Every call
\* brings a tab_name of its own.
SetName(d) ==
  \/ diffs[d].named
  \/ diffs[d].pc \in {"set_filetype", "autocmd"} /\ diffs[d].bufnr \in bufs

\* buffer.setOption('buftype'), ('swapfile'), ('filetype'): an invalid buffer throws
OpenDiff_SetOption(d) ==
  /\ AtHead(<<"diff", d>>) /\ diffs[d].pc \in {"set_buftype", "set_swapfile", "set_filetype"}
  /\ IF diffs[d].buffer \in bufs
     THEN /\ diffs' = [diffs EXCEPT ![d].named = SetName(d), ![d].pc =
                CASE diffs[d].pc = "set_buftype" -> "set_swapfile"
                  [] diffs[d].pc = "set_swapfile" -> "set_lines"
                  [] OTHER -> "autocmd"]
          /\ rpcQueue' = Requeue(<<"diff", d>>)
     ELSE /\ diffs' = [diffs EXCEPT ![d].named = SetName(d), ![d].pc = "failed"]
          /\ rpcQueue' = Dequeue
  /\ UNCHANGED <<editorVars, diffPromises, diffFrame>>

\* buffer.setLines(new_file_contents.split('\n')); await nvim.buffers
OpenDiff_SetLines(d) ==
  /\ AtHead(<<"diff", d>>) /\ diffs[d].pc = "set_lines"
  /\ IF diffs[d].buffer \in bufs
     THEN /\ lines' = [lines EXCEPT ![diffs[d].buffer] = Split(diffs[d].contents)]
          /\ modified' = [modified EXCEPT ![diffs[d].buffer] = TRUE]
          /\ diffs' = [diffs EXCEPT ![d].pc = "list_bufs"]
          /\ rpcQueue' = Requeue(<<"diff", d>>)
     ELSE /\ diffs' = [diffs EXCEPT ![d].pc = "failed"]
          /\ rpcQueue' = Dequeue
          /\ UNCHANGED <<lines, modified>>
  /\ UNCHANGED <<bufs, nextBuf, curBuf, hook, cmdActivate, cmdShow>>
  /\ UNCHANGED <<diffPromises, diffFrame>>

\* nvim.buffers replied (buf.name = tab_name); filetype if the path has an
\* extension.  new_file_path is read here for the first time, so the request's
\* value is drawn here.
OpenDiff_ListBufs(d) ==
  /\ AtHead(<<"diff", d>>) /\ diffs[d].pc = "list_bufs"
  /\ \E new_file_path \in FilePaths :
       diffs' = [diffs EXCEPT ![d].pc =
          IF FileExt(new_file_path) # "" THEN "set_filetype" ELSE "autocmd"]
  /\ rpcQueue' = Requeue(<<"diff", d>>)
  /\ UNCHANGED <<editorVars, diffPromises, diffFrame>>

\* autocmd BufWriteCmd <buffer=bufnr> ClaudeAccept (E680 if bufnr is gone);
\* await commandExists('ClaudeShowFileDiff')
OpenDiff_Autocmd(d) ==
  /\ AtHead(<<"diff", d>>) /\ diffs[d].pc = "autocmd"
  /\ IF diffs[d].bufnr \in bufs
     THEN /\ hook' = hook \cup {diffs[d].bufnr}
          /\ diffs' = [diffs EXCEPT ![d].named = SetName(d), ![d].pc = "exists_show"]
          /\ rpcQueue' = Requeue(<<"diff", d>>)
     ELSE /\ diffs' = [diffs EXCEPT ![d].pc = "failed"]
          /\ rpcQueue' = Dequeue
          /\ UNCHANGED hook
  /\ UNCHANGED <<bufs, nextBuf, lines, modified, curBuf, cmdActivate, cmdShow>>
  /\ UNCHANGED <<diffPromises, diffFrame>>

\* a faulty variant of Register: a handler that waits for the user's decision
\* while it holds the editor
Register_Blocking(d) ==
  /\ diffPromises' = [diffPromises EXCEPT ![diffs[d].ws] =
        {r \in @ : r.changeId # ChangeId(NvimPid, diffs[d].bufnr)}
        \cup {[changeId |-> ChangeId(NvimPid, diffs[d].bufnr),
               bufnr |-> diffs[d].bufnr, resolve |-> d]}]
  /\ diffs' = [diffs EXCEPT ![d].pc = "suspended"]
  /\ UNCHANGED rpcQueue

\* diffPromises.set(changeId, {resolve, reject, filePath, bufnr}); await resultPromise
Register(d) ==
  /\ diffPromises' = [diffPromises EXCEPT ![diffs[d].ws] =
        {r \in @ : r.changeId # ChangeId(NvimPid, diffs[d].bufnr)}
        \cup {[changeId |-> ChangeId(NvimPid, diffs[d].bufnr),
               bufnr |-> diffs[d].bufnr, resolve |-> d]}]
  /\ diffs' = [diffs EXCEPT ![d].pc = "suspended"]
  /\ rpcQueue' = Dequeue

\* exists(':ClaudeShowFileDiff') replied: await the command, or register
OpenDiff_ExistsShow(d) ==
  /\ AtHead(<<"diff", d>>) /\ diffs[d].pc = "exists_show"
  /\ IF cmdShow
     THEN /\ diffs' = [diffs EXCEPT ![d].pc = "show_diff"]
          /\ rpcQueue' = Requeue(<<"diff", d>>)
          /\ UNCHANGED diffPromises
     ELSE Register(d)
  /\ UNCHANGED <<editorVars, diffFrame>>

\* :ClaudeShowFileDiff ran; register
OpenDiff_ShowDiff(d) ==
  /\ AtHead(<<"diff", d>>) /\ diffs[d].pc = "show_diff"
  /\ Register(d)
  /\ UNCHANGED <<editorVars, diffFrame>>


\* ------------------------------- close_tab, closeAllDiffTabs, executeCode
\* Names a buffer can carry: 0 is a name no buffer carries ("missing.txt"),
\* d is the tab_name of openDiff call d.  bufnr(tab_name) also finds buffers
\* that :bdelete took off the list.
TabNames == {0} \cup DiffIds

\* a faulty variant of BufNr: a lookup that takes any name for the current buffer
BufNr_Current(name) == curBuf

\* nvim.call('bufnr', [tab_name]): -1 if no buffer carries the name
BufNr(name) ==
  IF name \in DiffIds /\ diffs[name].named /\ diffs[name].bufnr \in bufs
  THEN diffs[name].bufnr ELSE -1

\* :bdelete[!] {b} fails with E516 for a buffer that does not exist or is already
\* unloaded and unlisted, and with E89 for a modified buffer without `!`
CanDelete(b, force) == b \in bufs /\ b \notin unlisted /\ (force \/ ~modified[b])

\* What :bdelete does to the editor: the buffer is unloaded and taken off the
\* list.  It stays a buffer, its buffer-local autocmds stay, and BufWipeout is
\* not triggered.
EditorDelete(b) ==
  /\ unlisted' = unlisted \cup {b}
  /\ lines' = [lines EXCEPT ![b] = EmptyBufferLines]
  /\ modified' = [modified EXCEPT ![b] = FALSE]
  /\ LET others == (bufs \ unlisted) \ {b} IN
       curBuf' \in IF curBuf = b /\ others # {} THEN others ELSE {curBuf}
  /\ UNCHANGED <<bufs, nextBuf, hook, cmdActivate, cmdShow>>

FreeToolCalls == {t \in ToolIds : toolCalls[t].pc = "idle"}
NewToolCall == CHOOSE t \in FreeToolCalls : \A x \in FreeToolCalls : t <= x

\* the records pending in any session's diffPromises, by buffer number
AllPending == UNION {{r.bufnr : r \in diffPromises[w]} : w \in WsIds}

toolFrame == <<mgrVars, wsVars, obsVars, fileVars, hbVars, noteVars, lastCmd,
               unsafeVar, unsafeExecuteLua, executeCode, lastStatus,
               diffPromises, diffs, calls>>

\* the result the session sends back for tool call t
Reply(t, text) ==
  lastReply' = [ws |-> toolCalls[t].ws, tool |-> toolCalls[t].tool,
                text |-> text, name |-> toolCalls[t].name,
                closedCount |-> toolCalls[t].closedCount,
                pending |-> toolCalls[t].pending]

\* a close_tab request arrives on session w: await nvim.call('bufnr', [tab_name])
CloseTab_Call(w, name) ==
  /\ w \in transportUp /\ wsState[w] = "OPEN"
  /\ FreeToolCalls # {}
  /\ toolCalls' = [toolCalls EXCEPT ![NewToolCall] =
        [NoToolCall EXCEPT !.pc = "bufnr", !.tool = "close_tab", !.ws = w,
                           !.name = name]]
  /\ rpcQueue' = Append(rpcQueue, <<"tool", NewToolCall>>)
  /\ UNCHANGED <<editorVars, unlisted, lastReply, toolFrame>>

\* bufnr replied: -1 returns TAB_CLOSED at once, anything else awaits getpid
CloseTab_BufNr(t) ==
  /\ AtHead(<<"tool", t>>) /\ toolCalls[t].tool = "close_tab"
  /\ toolCalls[t].pc = "bufnr"
  /\ IF BufNr(toolCalls[t].name) = -1
     THEN /\ Reply(t, "TAB_CLOSED")
          /\ toolCalls' = [toolCalls EXCEPT ![t] = NoToolCall]
          /\ rpcQueue' = Dequeue
     ELSE /\ toolCalls' = [toolCalls EXCEPT ![t].pc = "getpid",
                                            ![t].bufnr = BufNr(toolCalls[t].name)]
          /\ rpcQueue' = Requeue(<<"tool", t>>)
          /\ UNCHANGED lastReply
  /\ UNCHANGED <<editorVars, unlisted, toolFrame>>

\* getpid replied: isDiffBuffer = diffPromises.has(changeId), in the map of the
\* session that serves the call; await bdelete! or bdelete
CloseTab_GetPid(t) ==
  /\ AtHead(<<"tool", t>>) /\ toolCalls[t].tool = "close_tab"
  /\ toolCalls[t].pc = "getpid"
  /\ toolCalls' = [toolCalls EXCEPT ![t].pc = "bdelete", ![t].isDiffBuffer =
        \E r \in diffPromises[toolCalls[t].ws] :
           r.changeId = ChangeId(NvimPid, toolCalls[t].bufnr)]
  /\ rpcQueue' = Requeue(<<"tool", t>>)
  /\ UNCHANGED <<editorVars, unlisted, lastReply, toolFrame>>

\* :bdelete ran: TAB_CLOSED, or the handler throws and the session replies with
\* an error result
CloseTab_Delete(t) ==
  /\ AtHead(<<"tool", t>>) /\ toolCalls[t].tool = "close_tab"
  /\ toolCalls[t].pc = "bdelete"
  /\ IF CanDelete(toolCalls[t].bufnr, toolCalls[t].isDiffBuffer)
     THEN /\ EditorDelete(toolCalls[t].bufnr)
          /\ Reply(t, "TAB_CLOSED")
     ELSE /\ Reply(t, "ERROR")
          /\ UNCHANGED <<editorVars, unlisted>>
  /\ toolCalls' = [toolCalls EXCEPT ![t] = NoToolCall]
  /\ rpcQueue' = Dequeue
  /\ UNCHANGED toolFrame

\* A closeAllDiffTabs request arrives on session w.  The loop runs over the
\* diffPromises map of that session; with no entry the handler returns at once.
\* The model keeps no insertion order for the map: the entries come in any order.
CloseAll_Call(w) ==
  /\ w \in transportUp /\ wsState[w] = "OPEN"
  /\ FreeToolCalls # {}
  /\ LET t == NewToolCall
         call == [NoToolCall EXCEPT !.pc = "bdelete", !.tool = "closeAllDiffTabs",
                                    !.ws = w, !.pending = AllPending]
     IN IF diffPromises[w] = {}
        THEN /\ lastReply' = [ws |-> w, tool |-> "closeAllDiffTabs",
                              text |-> "CLOSED", name |-> 0, closedCount |-> 0,
                              pending |-> AllPending]
             /\ UNCHANGED <<toolCalls, rpcQueue>>
        ELSE /\ \E r \in diffPromises[w] :
                  toolCalls' = [toolCalls EXCEPT ![t] =
                     [call EXCEPT !.bufnr = r.bufnr, !.seen = {r.bufnr}]]
             /\ rpcQueue' = Append(rpcQueue, <<"tool", t>>)
             /\ UNCHANGED lastReply
  /\ UNCHANGED <<editorVars, unlisted, toolFrame>>

\* `bdelete! bufnr` ran: closedCount++, or the catch block with a warning nobody
\* awaits; then the next entry of the map, or CLOSED_<closedCount>_DIFF_TABS.
\* No record is deleted and no promise is resolved.
CloseAll_Delete(t) ==
  /\ AtHead(<<"tool", t>>) /\ toolCalls[t].tool = "closeAllDiffTabs"
  /\ LET b == toolCalls[t].bufnr
         ok == CanDelete(b, TRUE)
         n == toolCalls[t].closedCount + (IF ok THEN 1 ELSE 0)
         rest == {r.bufnr : r \in diffPromises[toolCalls[t].ws]} \ toolCalls[t].seen
         replied == IF ok THEN Dequeue ELSE Append(Dequeue, <<"log">>)
     IN /\ IF ok THEN EditorDelete(b) ELSE UNCHANGED <<editorVars, unlisted>>
        /\ IF rest = {}
           THEN /\ lastReply' = [ws |-> toolCalls[t].ws, tool |-> "closeAllDiffTabs",
                                 text |-> "CLOSED", name |-> 0, closedCount |-> n,
                                 pending |-> toolCalls[t].pending]
                /\ toolCalls' = [toolCalls EXCEPT ![t] = NoToolCall]
                /\ rpcQueue' = replied
           ELSE /\ \E nxt \in rest :
                     toolCalls' = [toolCalls EXCEPT ![t].bufnr = nxt,
                                     ![t].seen = @ \cup {nxt}, ![t].closedCount = n]
                /\ rpcQueue' = Append(replied, <<"tool", t>>)
                /\ UNCHANGED lastReply
  /\ UNCHANGED toolFrame

\* the user sets or clears g:claude_unsafe_execute_lua
SetUnsafe(v) ==
  /\ v \in FlagValues /\ v # unsafeVar
  /\ unsafeVar' = v
  /\ UNCHANGED <<editorVars, mgrVars, wsVars, obsVars, fileVars, hbVars, noteVars,
                 lastCmd, unsafeExecuteLua, executeCode, unlisted, toolCalls,
                 lastReply, lastStatus, diffPromises, diffs, calls, rpcQueue>>

\* An executeCode request arrives on session w.  A session that registered the
\* tool runs its handler, which starts with `await toolLogger.warn`; any other
\* session answers that it has no such tool.
ExecuteCode_Call(w) ==
  /\ w \in transportUp /\ wsState[w] = "OPEN"
  /\ FreeToolCalls # {}
  /\ IF w \in executeCode
     THEN /\ toolCalls' = [toolCalls EXCEPT ![NewToolCall] =
                [NoToolCall EXCEPT !.pc = "warn", !.tool = "executeCode", !.ws = w]]
          /\ rpcQueue' = Append(rpcQueue, <<"tool", NewToolCall>>)
          /\ UNCHANGED lastReply
     ELSE /\ lastReply' = [ws |-> w, tool |-> "executeCode", text |-> "not found",
                           name |-> 0, closedCount |-> 0, pending |-> {}]
          /\ UNCHANGED <<toolCalls, rpcQueue>>
  /\ UNCHANGED <<editorVars, unlisted, toolFrame>>

\* the warning 'Executing Lua code: ...' is written; await nvim_exec_lua
ExecuteCode_Warn(t) ==
  /\ AtHead(<<"tool", t>>) /\ toolCalls[t].tool = "executeCode"
  /\ toolCalls[t].pc = "warn"
  /\ toolCalls' = [toolCalls EXCEPT ![t].pc = "exec_lua", ![t].warned = TRUE]
  /\ rpcQueue' = Requeue(<<"tool", t>>)
  /\ UNCHANGED <<editorVars, unlisted, lastReply, toolFrame>>

\* nvim_exec_lua ran the code, which returned or raised an error; await
\* toolLogger.info or toolLogger.error.  What the code does to the editor is
\* not modelled.
ExecuteCode_Lua(t) ==
  /\ AtHead(<<"tool", t>>) /\ toolCalls[t].tool = "executeCode"
  /\ toolCalls[t].pc = "exec_lua"
  /\ \E ok \in BOOLEAN :
       toolCalls' = [toolCalls EXCEPT ![t].pc = IF ok THEN "log_result" ELSE "log_error"]
  /\ rpcQueue' = Requeue(<<"tool", t>>)
  /\ UNCHANGED <<editorVars, unlisted, lastReply, toolFrame>>

\* the result or the error is logged and returned
ExecuteCode_Return(t) ==
  /\ AtHead(<<"tool", t>>) /\ toolCalls[t].tool = "executeCode"
  /\ toolCalls[t].pc \in {"log_result", "log_error"}
  /\ Reply(t, IF toolCalls[t].pc = "log_result" THEN "result" ELSE "ERROR")
  /\ toolCalls' = [toolCalls EXCEPT ![t] = NoToolCall]
  /\ rpcQueue' = Dequeue
  /\ UNCHANGED <<editorVars, unlisted, toolFrame>>

\* Command ClaudeMcpServerStatus: 'Not running', or getPort() and
\* getClientCount() read before the first of four awaited logger.info calls
CmdStatus ==
  /\ IF ManagerRunning
     THEN /\ FreeToolCalls # {}
          /\ lastStatus' = [said |-> "running", port |-> getPort(serverManager),
                            clients |-> getClientCount(serverManager)]
          /\ toolCalls' = [toolCalls EXCEPT ![NewToolCall] =
                [NoToolCall EXCEPT !.pc = "log_running", !.tool = "status"]]
          /\ rpcQueue' = Append(rpcQueue, <<"tool", NewToolCall>>)
     ELSE /\ Warns < MaxWarns
          /\ lastStatus' = [said |-> "not running", port |-> 0, clients |-> 0]
          /\ rpcQueue' = Append(rpcQueue, <<"log">>)
          /\ UNCHANGED toolCalls
  /\ UNCHANGED <<editorVars, mgrVars, wsVars, obsVars, fileVars, hbVars, noteVars,
                 lastCmd, unsafeVar, unsafeExecuteLua, executeCode, unlisted,
                 lastReply, diffPromises, diffs, calls>>

\* ClaudeMcpServerStatus: one of its four lines is written
Status_Log(t) ==
  /\ AtHead(<<"tool", t>>) /\ toolCalls[t].tool = "status"
  /\ IF toolCalls[t].pc = "log_lockfile"
     THEN /\ toolCalls' = [toolCalls EXCEPT ![t] = NoToolCall]
          /\ rpcQueue' = Dequeue
     ELSE /\ toolCalls' = [toolCalls EXCEPT ![t].pc =
                CASE toolCalls[t].pc = "log_running" -> "log_port"
                  [] toolCalls[t].pc = "log_port" -> "log_clients"
                  [] OTHER -> "log_lockfile"]
          /\ rpcQueue' = Requeue(<<"tool", t>>)
  /\ UNCHANGED <<editorVars, unlisted, lastReply, toolFrame>>

\* ------------------------------------------- accept / drop / BufWipeout
callFrame == <<serverManager, nManagers, wss, listening, clientServers,
               healthCheckIntervals, timers, changeHandlers, startPc, stopH,
               wsVars, lastUpgrade, outVars>>

\* what the end of a decision leaves alone: all of callFrame but the tracking
\* set and lastSelectionBuffer
callFrameW == <<serverManager, nManagers, wss, listening, clientServers,
                healthCheckIntervals, timers, changeHandlers, startPc, stopH,
                wsVars, lastUpgrade, fileVars, hbVars, toolVars, lastCmd,
                notes, nEvents, nRelay, lastFanOut, lastSent>>

\* Command ClaudeAccept / ClaudeDrop up to await plugin.nvim.buffer
CmdClaudeAccept ==
  /\ ManagerRunning /\ FreeCalls # {}
  /\ calls' = [calls EXCEPT ![NewCall] =
        [NoCall EXCEPT !.pc = "get_buffer", !.origin = "ClaudeAccept", !.kind = "accept"]]
  /\ rpcQueue' = Append(rpcQueue, <<"call", NewCall>>)
  /\ UNCHANGED <<editorVars, diffPromises, diffs, callFrame, trueCount>>

CmdClaudeDrop ==
  /\ ManagerRunning /\ FreeCalls # {}
  /\ calls' = [calls EXCEPT ![NewCall] =
        [NoCall EXCEPT !.pc = "get_buffer", !.origin = "ClaudeDrop", !.kind = "drop"]]
  /\ rpcQueue' = Append(rpcQueue, <<"call", NewCall>>)
  /\ UNCHANGED <<editorVars, diffPromises, diffs, callFrame, trueCount>>

\* buffer b is wiped out; autocmd BufWipeout up to await getpid
BufWipeout(b) ==
  /\ EditorWipe(b)
  /\ IF ManagerRunning
     THEN /\ FreeCalls # {}
          /\ calls' = [calls EXCEPT ![NewCall] =
                [NoCall EXCEPT !.pc = "getpid", !.origin = "BufWipeout",
                               !.kind = "drop", !.bufnr = b]]
          /\ rpcQueue' = Append(rpcQueue, <<"call", NewCall>>)
     ELSE UNCHANGED <<calls, rpcQueue>>
  /\ UNCHANGED <<diffPromises, diffs, callFrame, trueCount>>

\* (await plugin.nvim.buffer).id replied; await getpid
Call_GetBuffer(c) ==
  /\ AtHead(<<"call", c>>) /\ calls[c].pc = "get_buffer"
  /\ calls' = [calls EXCEPT ![c].bufnr = curBuf, ![c].pc = "getpid"]
  /\ rpcQueue' = Requeue(<<"call", c>>)
  /\ UNCHANGED <<editorVars, diffPromises, diffs, callFrame, trueCount>>

\* a faulty variant of Lookup: a lookup that ignores the key
Lookup_AnyKey(w, changeId) == diffPromises[w]

\* diffPromises.has(changeId) / .get(changeId) of the handler of session w
Lookup(w, changeId) == {r \in diffPromises[w] : r.changeId = changeId}
has(w, changeId) == Lookup(w, changeId) # {}

\* the handler of a command ends
CallEnd(c) ==
  /\ calls' = [calls EXCEPT ![c] = NoCall]
  /\ rpcQueue' = Dequeue
  /\ UNCHANGED <<selectionTracking, lastSelectionBuffer>>

\* a faulty variant of Wipeout_StopTracking: an autocmd that ends after dropChanges
Wipeout_StopTracking_Keeps(c) == CallEnd(c)

\* the BufWipeout autocmd after dropChanges returned:
\* serverManager.stopSelectionTracking(bufnr) up to its first await (a
\* TypeError on null ends the handler).  Untracked: return.  Else delete; if
\* lastSelectionBuffer === bufnr, sendEmptySelection: without wss it returns at
\* once, else await nvim.buffers; then await logger.info
Wipeout_StopTracking(c) ==
  LET g == serverManager
      bufnr == calls[c].bufnr
  IN IF g = 0 \/ ~Tracked(g, bufnr)
     THEN CallEnd(c)
     ELSE /\ selectionTracking' = [selectionTracking EXCEPT ![g] = @ \ {bufnr}]
          /\ IF lastSelectionBuffer[g] = bufnr /\ wss[g]
             THEN /\ calls' = [calls EXCEPT ![c].mgr = g, ![c].pc = "untrack_buffers"]
                  /\ UNCHANGED lastSelectionBuffer
             ELSE /\ calls' = [calls EXCEPT ![c].mgr = g, ![c].pc = "untrack_log"]
                  /\ lastSelectionBuffer' =
                       [lastSelectionBuffer EXCEPT ![g] = IF @ = bufnr THEN 0 ELSE @]
          /\ rpcQueue' = Requeue(<<"call", c>>)

\* the BufWipeout autocmd inside stopSelectionTracking.  nvim.buffers replied:
\* the wiped buffer is not in the list, sendEmptySelection returns,
\* lastSelectionBuffer = null, await logger.info; logger.info replied: return
Call_Untrack(c) ==
  /\ AtHead(<<"call", c>>) /\ calls[c].pc \in {"untrack_buffers", "untrack_log"}
  /\ IF calls[c].pc = "untrack_buffers"
     THEN /\ lastSelectionBuffer' = [lastSelectionBuffer EXCEPT ![calls[c].mgr] = 0]
          /\ calls' = [calls EXCEPT ![c].pc = "untrack_log"]
          /\ rpcQueue' = Requeue(<<"call", c>>)
          /\ UNCHANGED selectionTracking
     ELSE CallEnd(c)
  /\ UNCHANGED <<editorVars, diffPromises, diffs, callFrameW, trueCount>>

\* ClaudeMcpServerManager.acceptChanges / dropChanges: the loop over
\* this.changeHandlers from index `from`, up to the first handler that awaits
ManagerLoop(c, g, from) ==
  LET k == ChangeId(NvimPid, calls[c].bufnr)
      hit == {i \in from..Len(changeHandlers[g]) : has(changeHandlers[g][i], k)}
  IN IF hit # {}
     THEN LET i == CHOOSE j \in hit : \A x \in hit : j <= x
              r == CHOOSE x \in Lookup(changeHandlers[g][i], k) : TRUE
          IN /\ calls' = [calls EXCEPT ![c].mgr = g, ![c].h = i, ![c].saw = TRUE,
                            ![c].rec = r.resolve,
                            ![c].pc = IF calls[c].kind = "accept"
                                      THEN "accept_buffers" ELSE "drop_buffers"]
             /\ rpcQueue' = Requeue(<<"call", c>>)
             /\ UNCHANGED <<trueCount, selectionTracking, lastSelectionBuffer>>
     ELSE \* every handler returned false: the manager returns false
          /\ UNCHANGED trueCount
          /\ IF calls[c].origin = "BufWipeout"
             THEN Wipeout_StopTracking(c)
             ELSE \* await commandLogger.warn('This is not a claude code diff')
                  /\ calls' = [calls EXCEPT ![c].mgr = g, ![c].pc = "log_end"]
                  /\ rpcQueue' = Requeue(<<"call", c>>)
                  /\ UNCHANGED <<selectionTracking, lastSelectionBuffer>>

\* getpid replied; serverManager.acceptChanges(changeId) / dropChanges(changeId)
Call_GetPid(c) ==
  /\ AtHead(<<"call", c>>) /\ calls[c].pc = "getpid"
  /\ IF serverManager = 0
     THEN \* TypeError on null: caught and logged by the commands, unhandled in the autocmd
          /\ IF calls[c].origin = "BufWipeout"
             THEN CallEnd(c)
             ELSE /\ calls' = [calls EXCEPT ![c].pc = "log_end"]
                  /\ rpcQueue' = Requeue(<<"call", c>>)
                  /\ UNCHANGED <<selectionTracking, lastSelectionBuffer>>
          /\ UNCHANGED trueCount
     ELSE ManagerLoop(c, serverManager, 1)
  /\ UNCHANGED <<editorVars, diffPromises, diffs, callFrameW>>

\* the command's last logger round trip
Call_LogEnd(c) ==
  /\ AtHead(<<"call", c>>) /\ calls[c].pc = "log_end"
  /\ calls' = [calls EXCEPT ![c] = NoCall]
  /\ rpcQueue' = Dequeue
  /\ UNCHANGED <<editorVars, diffPromises, diffs, callFrame, trueCount>>

\* a handler returned false after logging its error: the manager's loop goes on
Call_HandlerFailed(c) ==
  /\ AtHead(<<"call", c>>) /\ calls[c].pc = "handler_log_fail"
  /\ ManagerLoop(c, calls[c].mgr, calls[c].h + 1)
  /\ UNCHANGED <<editorVars, diffPromises, diffs, callFrameW>>

\* a handler returned true after logging: the manager returns true
Call_HandlerOk(c) ==
  /\ AtHead(<<"call", c>>) /\ calls[c].pc = "handler_log_ok"
  /\ trueCount' = [trueCount EXCEPT ![calls[c].bufnr] = IF @ < 2 THEN @ + 1 ELSE @]
  /\ IF calls[c].origin = "BufWipeout" THEN Wipeout_StopTracking(c) ELSE CallEnd(c)
  /\ UNCHANGED <<editorVars, diffPromises, diffs, callFrameW>>

\* resolve(payload) of openDiff call d: settles the promise the call awaits
Resolve(d, payload) ==
  diffs' = [diffs EXCEPT ![d].resolves = IF @ < 2 THEN @ + 1 ELSE @,
                         ![d].pc = IF @ = "suspended" THEN "done" ELSE @,
                         ![d].result = IF diffs[d].pc = "suspended" THEN payload ELSE @]

\* a faulty variant of Delete: a handler that leaves the record in the table
Delete_Keeps(c) == UNCHANGED diffPromises

\* diffPromises.delete(changeId) in the handler the call is in
Delete(c) ==
  diffPromises' = [diffPromises EXCEPT ![changeHandlers[calls[c].mgr][calls[c].h]] =
      {r \in @ : r.changeId # ChangeId(NvimPid, calls[c].bufnr)}]

CallTo(c, pc) ==
  /\ calls' = [calls EXCEPT ![c].pc = pc]
  /\ rpcQueue' = Requeue(<<"call", c>>)

\* acceptChanges: nvim.buffers replied; buffers.find
Accept_Buffers(c) ==
  /\ AtHead(<<"call", c>>) /\ calls[c].pc = "accept_buffers"
  /\ IF ParseBufnr(ChangeId(NvimPid, calls[c].bufnr)) \in bufs
     THEN CallTo(c, "accept_lines")
     ELSE CallTo(c, "handler_log_fail")
  /\ UNCHANGED <<editorVars, diffPromises, diffs, callFrame, trueCount>>

\* acceptChanges: buffer.lines replied; content = lines.join('\n')
Accept_Lines(c) ==
  /\ AtHead(<<"call", c>>) /\ calls[c].pc = "accept_lines"
  /\ IF calls[c].bufnr \in bufs
     THEN /\ calls' = [calls EXCEPT ![c].content = Join(lines[calls[c].bufnr]),
                                    ![c].read = TRUE, ![c].pc = "accept_setmod"]
          /\ rpcQueue' = Requeue(<<"call", c>>)
     ELSE CallTo(c, "handler_log_fail")
  /\ UNCHANGED <<editorVars, diffPromises, diffs, callFrame, trueCount>>

\* acceptChanges: setOption('modified', false) replied; delete; resolve
Accept_Resolve(c) ==
  /\ AtHead(<<"call", c>>) /\ calls[c].pc = "accept_setmod"
  /\ IF calls[c].bufnr \in bufs
     THEN /\ modified' = [modified EXCEPT ![calls[c].bufnr] = FALSE]
          /\ Delete(c)
          /\ Resolve(calls[c].rec, <<"FILE_SAVED", calls[c].content>>)
          /\ CallTo(c, "handler_log_ok")
     ELSE /\ CallTo(c, "handler_log_fail")
          /\ UNCHANGED <<modified, diffPromises, diffs>>
  /\ UNCHANGED <<bufs, nextBuf, lines, curBuf, hook, cmdActivate, cmdShow>>
  /\ UNCHANGED <<callFrame, trueCount>>

\* dropChanges: nvim.buffers replied; without the buffer: delete; resolve
Drop_Buffers(c) ==
  /\ AtHead(<<"call", c>>) /\ calls[c].pc = "drop_buffers"
  /\ IF ParseBufnr(ChangeId(NvimPid, calls[c].bufnr)) \in bufs
     THEN /\ CallTo(c, "drop_setmod")
          /\ UNCHANGED <<diffPromises, diffs>>
     ELSE /\ Delete(c)
          /\ Resolve(calls[c].rec, <<"DIFF_REJECTED">>)
          /\ CallTo(c, "handler_log_ok")
  /\ UNCHANGED <<editorVars, callFrame, trueCount>>

\* dropChanges: setOption('modified', false) replied; delete; resolve
Drop_Resolve(c) ==
  /\ AtHead(<<"call", c>>) /\ calls[c].pc = "drop_setmod"
  /\ IF calls[c].bufnr \in bufs
     THEN /\ modified' = [modified EXCEPT ![calls[c].bufnr] = FALSE]
          /\ Delete(c)
          /\ Resolve(calls[c].rec, <<"DIFF_REJECTED">>)
          /\ CallTo(c, "handler_log_ok")
     ELSE /\ CallTo(c, "handler_log_fail")
          /\ UNCHANGED <<modified, diffPromises, diffs>>
  /\ UNCHANGED <<bufs, nextBuf, lines, curBuf, hook, cmdActivate, cmdShow>>
  /\ UNCHANGED <<callFrame, trueCount>>


\* ------------------------------------------------------- stop() and close
\* entries of clientServers the Map iterator of stop() has not visited yet
Unvisited(g, visited) == SelectSeq(clientServers[g], LAMBDA w : w \notin visited)

\* a faulty variant of StopLoop: a loop without clearInterval
StopLoop_KeepsTimers(g, visited, ws) ==
  LET u == Unvisited(g, visited)
      open == {i \in 1..Len(u) : ws[u[i]] # "CLOSED"}
      n == IF open = {} THEN Len(u) ELSE CHOOSE i \in open : \A x \in open : i <= x
      passed == {u[i] : i \in 1..n}
      pending == IF stopH[g].pc = "idle"
                 THEN {d \in DiffIds : diffs[d].pc = "suspended"}
                 ELSE stopH[g].pending
  IN /\ UNCHANGED timers
     /\ IF open = {}
        THEN /\ clientServers' = [clientServers EXCEPT ![g] = <<>>]
             /\ healthCheckIntervals' = [healthCheckIntervals EXCEPT ![g] = {}]
             /\ listening' = [listening EXCEPT ![g] = FALSE]
             /\ stopH' = [stopH EXCEPT ![g].pc = "wss_close", ![g].visited = {},
                                       ![g].cur = 0, ![g].pending = pending]
             /\ wsState' = ws
        ELSE /\ wsState' = [ws EXCEPT ![u[n]] = IF @ = "OPEN" THEN "CLOSING" ELSE @]
             /\ stopH' = [stopH EXCEPT ![g].pc = "closing",
                                       ![g].visited = visited \cup passed,
                                       ![g].cur = u[n], ![g].pending = pending]
             /\ UNCHANGED <<clientServers, healthCheckIntervals, listening>>

\* a faulty variant of StopLoop: a transport whose close() waits for the 'close'
\* event of a socket that is CLOSED already
StopLoop_WaitsAll(g, visited, ws) ==
  LET u == Unvisited(g, visited)
      pending == IF stopH[g].pc = "idle"
                 THEN {d \in DiffIds : diffs[d].pc = "suspended"}
                 ELSE stopH[g].pending
  IN /\ timers' = timers \ ((IF u = <<>> THEN {} ELSE {u[1]}) \cap healthCheckIntervals[g])
     /\ wsState' = IF u = <<>> THEN ws
                   ELSE [ws EXCEPT ![u[1]] = IF @ = "OPEN" THEN "CLOSING" ELSE @]
     /\ IF u = <<>>
        THEN /\ clientServers' = [clientServers EXCEPT ![g] = <<>>]
             /\ healthCheckIntervals' = [healthCheckIntervals EXCEPT ![g] = {}]
             /\ listening' = [listening EXCEPT ![g] = FALSE]
             /\ stopH' = [stopH EXCEPT ![g].pc = "wss_close", ![g].visited = {},
                                       ![g].cur = 0, ![g].pending = pending]
        ELSE /\ stopH' = [stopH EXCEPT ![g].pc = "closing",
                                       ![g].visited = visited \cup {u[1]},
                                       ![g].cur = u[1], ![g].pending = pending]
             /\ UNCHANGED <<clientServers, healthCheckIntervals, listening>>

\* stop(): the for loop from the iterator's position up to the next await that
\* waits (mcpServer.close -> WebSocketTransport.close on a socket not yet CLOSED),
\* or past the loop to wss.close; ws is the readyState of every socket.
\* pending remembers the openDiff calls that were suspended when stop() was called.
StopLoop(g, visited, ws) ==
  LET u == Unvisited(g, visited)
      open == {i \in 1..Len(u) : ws[u[i]] # "CLOSED"}
      n == IF open = {} THEN Len(u) ELSE CHOOSE i \in open : \A x \in open : i <= x
      passed == {u[i] : i \in 1..n}
      pending == IF stopH[g].pc = "idle"
                 THEN {d \in DiffIds : diffs[d].pc = "suspended"}
                 ELSE stopH[g].pending
  IN /\ timers' = timers \ (passed \cap healthCheckIntervals[g])
     /\ IF open = {}
        THEN \* clientServers.clear(); healthCheckIntervals.clear(); wss.close(cb)
             /\ clientServers' = [clientServers EXCEPT ![g] = <<>>]
             /\ healthCheckIntervals' = [healthCheckIntervals EXCEPT ![g] = {}]
             /\ listening' = [listening EXCEPT ![g] = FALSE]
             /\ stopH' = [stopH EXCEPT ![g].pc = "wss_close", ![g].visited = {},
                                       ![g].cur = 0, ![g].pending = pending]
             /\ wsState' = ws
        ELSE \* transport.close(): ws.once('close', resolve); ws.close()
             /\ wsState' = [ws EXCEPT ![u[n]] = IF @ = "OPEN" THEN "CLOSING" ELSE @]
             /\ stopH' = [stopH EXCEPT ![g].pc = "closing",
                                       ![g].visited = visited \cup passed,
                                       ![g].cur = u[n], ![g].pending = pending]
             /\ UNCHANGED <<clientServers, healthCheckIntervals, listening>>

\* Command ClaudeMcpServerStop up to the first await of stop() that waits
CmdStop ==
  /\ ManagerRunning
  /\ stopH[serverManager].pc = "idle"
  /\ StopLoop(serverManager, {}, wsState)
  /\ lastCmd' = "stop"
  /\ UNCHANGED <<serverManager, nManagers, wss, changeHandlers, startPc>>
  /\ UNCHANGED <<wsMgr, transportUp, hc, onclose>>
  /\ UNCHANGED <<fileVars, hbVars, noteVars, toolVars>>
  /\ UNCHANGED <<editorVars, obsVars, diffPromises, diffs, calls, rpcQueue>>

\* Command ClaudeMcpServerStop while no server is running:
\* await commandLogger.warn('Claude MCP Server is not running'); return
CmdStop_NotRunning ==
  /\ ~ManagerRunning
  /\ Warns < MaxWarns
  /\ lastCmd' = "stop: not running"
  /\ rpcQueue' = Append(rpcQueue, <<"log">>)
  /\ UNCHANGED <<fileVars, hbVars, noteVars, toolVars>>
  /\ UNCHANGED <<editorVars, mgrVars, wsVars, obsVars, diffPromises, diffs, calls>>

\* the 'close' event of socket w: the peer closed, or the closing handshake ended
WsCloseEvent(w) ==
  /\ wsState[w] \in {"OPEN", "CLOSING"}
  /\ LET g == wsMgr[w]
         listener == hc[w] = "done" /\ onclose[w] = "none"
         waiting == stopH[g].pc = "closing" /\ stopH[g].cur = w
     IN /\ IF listener
           THEN \* handleClient's handler up to await logger.info
                /\ onclose' = [onclose EXCEPT ![w] = "log_disconnected"]
                /\ rpcQueue' = Append(rpcQueue, <<"onclose", w>>)
           ELSE UNCHANGED <<onclose, rpcQueue>>
        /\ IF waiting
           THEN \* transport.close() resolves: stop() goes on with the next entry
                StopLoop(g, stopH[g].visited, [wsState EXCEPT ![w] = "CLOSED"])
           ELSE /\ wsState' = [wsState EXCEPT ![w] = "CLOSED"]
                /\ UNCHANGED <<timers, clientServers, healthCheckIntervals, listening, stopH>>
  /\ UNCHANGED <<serverManager, nManagers, wss, changeHandlers, startPc>>
  /\ UNCHANGED <<wsMgr, transportUp, hc>>
  /\ UNCHANGED <<editorVars, outVars, obsVars, diffPromises, diffs, calls>>

\* the listener's 'close' event: every socket of the listener has closed.
\* Its first handler unlinks the lock file of the port if there is one; then
\* the callback of wss.close: this.wss = null; await setVar('claude_ide_port', 0)
WssClosed(g) ==
  /\ stopH[g].pc = "wss_close"
  /\ \A w \in WsIds : wsMgr[w] = g => wsState[w] = "CLOSED"
  /\ lockFile' = 0
  /\ wss' = [wss EXCEPT ![g] = FALSE]
  /\ stopH' = [stopH EXCEPT ![g].pc = "setVar"]
  /\ rpcQueue' = Append(rpcQueue, <<"stop", g>>)
  /\ UNCHANGED <<serverManager, nManagers, listening, clientServers,
                 healthCheckIntervals, timers, changeHandlers, startPc>>
  /\ UNCHANGED <<portError, idePort, hbVars, noteVars, toolVars, lastCmd>>
  /\ UNCHANGED <<editorVars, wsVars, obsVars, diffPromises, diffs, calls>>

\* a faulty variant of Stop_SetVar: a stop() that leaves g:claude_ide_port alone
Stop_SetVar_Keeps(g) ==
  /\ AtHead(<<"stop", g>>) /\ stopH[g].pc = "setVar"
  /\ stopH' = [stopH EXCEPT ![g].pc = "log_stopped"]
  /\ rpcQueue' = Requeue(<<"stop", g>>)
  /\ UNCHANGED <<serverManager, nManagers, wss, listening, clientServers,
                 healthCheckIntervals, timers, changeHandlers, startPc>>
  /\ UNCHANGED <<editorVars, outVars, wsVars, obsVars, diffPromises, diffs, calls>>

\* stop(): setVar('claude_ide_port', 0) replied; await logger.info('Server stopped')
Stop_SetVar(g) ==
  /\ AtHead(<<"stop", g>>) /\ stopH[g].pc = "setVar"
  /\ stopH' = [stopH EXCEPT ![g].pc = "log_stopped"]
  /\ rpcQueue' = Requeue(<<"stop", g>>)
  /\ idePort' = 0
  /\ UNCHANGED <<serverManager, nManagers, wss, listening, clientServers,
                 healthCheckIntervals, timers, changeHandlers, startPc>>
  /\ UNCHANGED <<lockFile, portError, hbVars, noteVars, toolVars, lastCmd>>
  /\ UNCHANGED <<editorVars, wsVars, obsVars, diffPromises, diffs, calls>>

\* stop() returned to ClaudeMcpServerStop: serverManager = null
Stop_Return(g) ==
  /\ AtHead(<<"stop", g>>) /\ stopH[g].pc = "log_stopped"
  /\ stopH' = [stopH EXCEPT ![g].pc = "done"]
  /\ serverManager' = 0
  /\ rpcQueue' = Dequeue
  /\ UNCHANGED <<nManagers, wss, listening, clientServers,
                 healthCheckIntervals, timers, changeHandlers, startPc>>
  /\ UNCHANGED <<editorVars, outVars, wsVars, obsVars, diffPromises, diffs, calls>>

\* ------------------------------------------------------------ specification
\* replies that resume start()
StartStep == \E g \in MgrIds : Start_Listen(g) \/ Start_Tail(g)

\* replies that resume handleClient on a socket that is still open
SessionStep == \E w \in WsIds : HandleClient_Register(w) \/ HandleClient_Store(w)

\* replies that resume handleClient's catch block and the close handler
CloseStep == \E w \in WsIds : HandleClient_Catch(w) \/ OnClose_Remove(w)

\* replies that resume the openDiff tool handler
DiffStep ==
  \E d \in DiffIds :
    \/ OpenDiff_CreateBuf(d) \/ OpenDiff_GetPid(d) \/ OpenDiff_ExistsActivate(d)
    \/ OpenDiff_Activate(d) \/ OpenDiff_GetBuffer(d) \/ OpenDiff_SetOption(d)
    \/ OpenDiff_SetLines(d) \/ OpenDiff_ListBufs(d) \/ OpenDiff_Autocmd(d)
    \/ OpenDiff_ExistsShow(d) \/ OpenDiff_ShowDiff(d)

\* replies that resume ClaudeAccept, ClaudeDrop and the BufWipeout autocmd
CallStep ==
  \E c \in CallIds :
    \/ Call_GetBuffer(c) \/ Call_GetPid(c) \/ Call_LogEnd(c)
    \/ Call_HandlerOk(c)
    \/ Accept_Buffers(c) \/ Accept_Lines(c) \/ Accept_Resolve(c)
    \/ Drop_Buffers(c) \/ Drop_Resolve(c)

\* the reply that resumes a decision whose handler logged an error
FailStep == \E c \in CallIds : Call_HandlerFailed(c)

\* replies that resume stop()
StopStep == \E g \in MgrIds : Stop_SetVar(g) \/ Stop_Return(g)

\* the review specifications: one server, one session, one openDiff call
FirstStart == nManagers < MaxStarts /\ CmdStart

\* a client that presents the token of its listener
Connect == \E g \in MgrIds : NewWs <= MaxConns /\ WsConnect(g, authToken(g))

\* a client that presents anything, or nothing
Upgrade ==
  \E g \in MgrIds, authHeader \in Headers :
    /\ verifyClient(g, authHeader) => NewWs <= MaxConns
    /\ WsConnect(g, authHeader)

Request ==
  \E w \in WsIds, c \in Contents :
    /\ Cardinality(DiffIds \ FreeDiffs) < MaxDiffs
    /\ OpenDiff_Call(w, c)

Command == CmdClaudeAccept \/ CmdClaudeDrop

Wipeout == \E b \in BufIds : BufWipeout(b)

Quiet == \A c \in CallIds : calls[c].pc = "idle"

\* Review of a proposed diff: decisions may overlap each other and openDiff.
Next ==
  \/ StartStep \/ SessionStep \/ DiffStep \/ CallStep \/ FailStep
  \/ FirstStart \/ Connect \/ Request \/ Command \/ Wipeout
  \/ \E b \in BufIds : SwitchBuffer(b)

Spec == Init /\ [][Next]_vars

\* Review with the user editing the buffers; one command at a time.
NextEdit ==
  \/ StartStep \/ SessionStep \/ DiffStep \/ CallStep \/ FailStep
  \/ FirstStart \/ Connect \/ Request \/ (Quiet /\ Command) \/ Wipeout
  \/ \E b \in BufIds : SwitchBuffer(b)
  \/ \E b \in BufIds, c \in Contents : HumanEdit(b, c)

SpecEdit == Init /\ [][NextEdit]_vars

\* Review with disconnects and ClaudeMcpServerStop; one decision at a time.
NextStop ==
  \/ StartStep \/ SessionStep \/ CloseStep \/ DiffStep \/ CallStep \/ StopStep
  \/ FirstStart \/ Connect \/ Request \/ (Quiet /\ (Command \/ Wipeout))
  \/ \E b \in BufIds : SwitchBuffer(b)
  \/ CmdStop
  \/ \E w \in WsIds : WsCloseEvent(w)
  \/ \E g \in MgrIds : WssClosed(g)

SpecStop == Init /\ [][NextStop]_vars

\* The listener alone: any upgrade request, sessions, disconnects, stop.
NextListener ==
  \/ StartStep \/ SessionStep \/ CloseStep \/ StopStep
  \/ FirstStart \/ Upgrade \/ CmdStop
  \/ \E w \in WsIds : WsCloseEvent(w)
  \/ \E g \in MgrIds : WssClosed(g)

SpecListener == Init /\ [][NextListener]_vars

\* The server's lifecycle: starts and stops in any order, refused commands,
\* two starts that overlap on the same port, sessions that come and go.
Accept == \E g \in MgrIds : WsConnect(g, authToken(g))

NextServer ==
  \/ StartStep \/ SessionStep \/ CloseStep \/ StopStep \/ Log_Reply
  \/ CmdStart \/ CmdStart_Running \/ CmdStop \/ CmdStop_NotRunning
  \/ Accept
  \/ \E w \in WsIds : WsCloseEvent(w)
  \/ \E g \in MgrIds : WssClosed(g)

SpecServer == Init /\ [][NextServer]_vars

\* replies that resume the selection and at-mention handlers
NoteStep ==
  \E h \in NoteIds :
    \/ Note_Buffer(h) \/ Note_Buffers(h) \/ Note_Name(h) \/ Note_Mode(h)
    \/ Note_Await(h) \/ Note_Send(h) \/ Note_Mention(h) \/ Note_Log(h)

\* One server and its sessions: heartbeats, probe failures, disconnects.
NextHeartbeat ==
  \/ StartStep \/ SessionStep \/ CloseStep \/ Log_Reply
  \/ FirstStart \/ Accept
  \/ \E w \in WsIds : Tick(w) \/ Tick_NotOpen(w) \/ ProbeFailed(w) \/ WsCloseEvent(w)

SpecHeartbeat == Init /\ [][NextHeartbeat]_vars

HeartbeatFairness ==
  /\ WF_vars(StartStep \/ SessionStep \/ CloseStep \/ Log_Reply)
  /\ WF_vars(\E w \in WsIds : wsState[w] = "CLOSING" /\ WsCloseEvent(w))

LiveHeartbeat == SpecHeartbeat /\ HeartbeatFairness

\* no selection or at-mention handler is in flight; no session is being set up
NotesIdle == \A h \in NoteIds : notes[h].pc = "idle"
Settled == \A w \in WsIds : hc[w] \in {"none", "done", "failed"}

\* One server and its sessions: disconnects, and the selection and at-mention
\* notifications.  Clients connect before the user starts; events overlap each
\* other and disconnects, the tracking commands are given one at a time.
NextNotify ==
  \/ StartStep \/ SessionStep \/ CloseStep \/ NoteStep
  \/ FirstStart
  \/ (NotesIdle /\ Accept)
  \/ (Settled /\ (CursorMoved \/ CmdClaudeMention))
  \/ (Settled /\ NotesIdle /\ (CmdStartSelectionTracking \/ CmdStopSelectionTracking))
  \/ \E w \in WsIds : WsCloseEvent(w)

SpecNotify == Init /\ [][NextNotify]_vars

\* One session that stays connected: heartbeat probes and overlapping
\* selection and at-mention handlers write to the same socket.
NextOrder ==
  \/ StartStep \/ SessionStep \/ NoteStep
  \/ FirstStart \/ Connect
  \/ (Settled /\ (CursorMoved \/ CmdClaudeMention))
  \/ (Settled /\ NotesIdle /\ CmdStartSelectionTracking)
  \/ \E w \in WsIds : Tick(w)

SpecOrder == Init /\ [][NextOrder]_vars

\* Two sessions of one server that call openDiff while heartbeats go on.  The
\* proposed text is the same in every call, a client connects while the editor
\* is idle, and every probe is written.
ToolCall == \E w \in WsIds : OpenDiff_Call(w, <<"a">>)

NextTools ==
  \/ StartStep \/ SessionStep \/ DiffStep \/ Log_Reply
  \/ FirstStart
  \/ (Settled /\ CmdStart_Running)
  \/ (rpcQueue = <<>> /\ Accept)
  \/ (Settled /\ ToolCall)
  \/ \E w \in WsIds : Tick(w) /\ UNCHANGED <<probe, timers>>

SpecTools == Init /\ [][NextTools]_vars

LiveTools == SpecTools /\ WF_vars(StartStep \/ SessionStep \/ DiffStep \/ Log_Reply)

\* One server and its sessions when a write fails: ws.send throws in a
\* fan-out loop, a heartbeat probe fails.  Clients connect while the editor is
\* idle, the user's events come one at a time, timers fire between them.
NextFault ==
  \/ StartStep \/ SessionStep \/ NoteStep \/ Log_Reply
  \/ FirstStart
  \/ (rpcQueue = <<>> /\ Accept)
  \/ (Settled /\ NotesIdle /\ (CursorMoved \/ CmdClaudeMention))
  \/ (Settled /\ NotesIdle /\ CmdStartSelectionTracking)
  \/ \E h \in NoteIds : Note_Send_Throws(h) \/ Note_Mention_Throws(h)
  \/ (Settled /\ NotesIdle /\ \E w \in WsIds : Tick(w) \/ ProbeFailed(w))

SpecFault == Init /\ [][NextFault]_vars

\* Selection tracking over buffers that come and go: the user opens, leaves
\* and wipes out buffers while tracking is started and stopped and motion
\* events are relayed.  No diff is open and no at-mention is sent.
TrackStep ==
  \/ \E h \in NoteIds :
       \/ Note_Buffer(h) \/ Note_Buffers(h) \/ Note_Name(h) \/ Note_Mode(h)
       \/ Note_Await(h) \/ Note_Send(h) \/ Note_Log(h)
  \/ \E c \in CallIds : Call_GetPid(c) \/ Call_Untrack(c)

NextTrack ==
  \/ StartStep \/ SessionStep \/ TrackStep
  \/ FirstStart
  \/ (rpcQueue = <<>> /\ Connect)
  \/ (Settled /\ CursorMoved)
  \/ (Settled /\ NotesIdle /\ CmdStartSelectionTracking)
  \/ (Settled /\ Quiet /\ CmdStopSelectionTracking)
  \/ (Settled /\ rpcQueue = <<>> /\ Wipeout)
  \/ (rpcQueue = <<>> /\ EditorNewBuffer)
  \/ (rpcQueue = <<>> /\ \E b \in BufIds : SwitchBuffer(b))

\* neither ClaudeActivateBufferDiff nor ClaudeShowFileDiff is defined; no step of
\* this specification asks for them
InitTrack == Init /\ ~cmdActivate /\ ~cmdShow

SpecTrack == InitTrack /\ [][NextTrack]_vars

\* fairness: the editor answers every request, a closing handshake ends, the
\* listener finishes closing, and a user who keeps being able to close a diff
\* buffer eventually closes it
Fairness ==
  /\ WF_vars(StartStep \/ SessionStep \/ CloseStep \/ DiffStep \/ CallStep \/ StopStep)
  /\ WF_vars(\E w \in WsIds : wsState[w] = "CLOSING" /\ WsCloseEvent(w))
  /\ WF_vars(\E g \in MgrIds : WssClosed(g))
  /\ \A b \in BufIds \ {1} : SF_vars(Quiet /\ BufWipeout(b))

LiveSpec == SpecStop /\ Fairness

\* the listener with the same guarantees: the editor answers, a closing
\* handshake ends, the listener finishes closing
ListenerFairness ==
  /\ WF_vars(StartStep \/ SessionStep \/ CloseStep \/ StopStep)
  /\ WF_vars(\E w \in WsIds : wsState[w] = "CLOSING" /\ WsCloseEvent(w))
  /\ WF_vars(\E g \in MgrIds : WssClosed(g))

LiveListener == SpecListener /\ ListenerFairness

\* replies that resume the close_tab and closeAllDiffTabs handlers
TabStep ==
  \E t \in ToolIds : \/ CloseTab_BufNr(t) \/ CloseTab_GetPid(t)
                     \/ CloseTab_Delete(t) \/ CloseAll_Delete(t)

\* no openDiff call is on its way to its registration
DiffsIdle == \A d \in DiffIds : diffs[d].pc \in {"idle", "suspended", "done", "failed"}

\* One server, its sessions and their diffs, with the tools that close tabs.
\* Clients connect one at a time and diffs open one at a time; the requests
\* that close tabs overlap each other.
NextTabs ==
  \/ StartStep \/ SessionStep \/ DiffStep \/ TabStep \/ Log_Reply
  \/ FirstStart
  \/ (rpcQueue = <<>> /\ Accept)
  \/ (rpcQueue = <<>> /\ Settled /\ ToolCall)
  \/ (Settled /\ DiffsIdle /\ \E w \in WsIds, name \in TabNames : CloseTab_Call(w, name))
  \/ (Settled /\ DiffsIdle /\ \E w \in WsIds : CloseAll_Call(w))

SpecTabs == Init /\ [][NextTabs]_vars

\* replies that resume the executeCode handler and the status command
CodeStep ==
  \E t \in ToolIds : \/ ExecuteCode_Warn(t) \/ ExecuteCode_Lua(t)
                     \/ ExecuteCode_Return(t) \/ Status_Log(t)

\* One server and its sessions, with the opt-in flag, the executeCode tool and
\* the status command.  The user changes the flag while the editor is idle;
\* clients connect one at a time; requests, status commands and disconnects
\* overlap.
NextCode ==
  \/ StartStep \/ SessionStep \/ CodeStep \/ Log_Reply
  \/ FirstStart
  \/ (rpcQueue = <<>> /\ \E v \in FlagValues : SetUnsafe(v))
  \/ (rpcQueue = <<>> /\ Accept)
  \/ (Settled /\ \E w \in WsIds : ExecuteCode_Call(w))
  \/ (Settled /\ \E w \in WsIds : WsCloseEvent(w))
  \/ (\E w \in WsIds : OnClose_Remove(w))
  \/ (rpcQueue = <<>> /\ CmdStatus)

SpecCode == Init /\ [][NextCode]_vars

\* One server and its sessions: heartbeats go on while the user stops the
\* server.  Clients connect while the editor is idle.
NextHalt ==
  \/ StartStep \/ SessionStep \/ CloseStep \/ StopStep \/ Log_Reply
  \/ FirstStart \/ CmdStop
  \/ (rpcQueue = <<>> /\ Accept)
  \/ \E w \in WsIds : Tick(w) \/ ProbeFailed(w) \/ WsCloseEvent(w)
  \/ \E g \in MgrIds : WssClosed(g)

SpecHalt == Init /\ [][NextHalt]_vars

\* ------------------------------------------------------------------ claims
\* the key a decision works on, and whether some session holds a record for it
KeyOf(c) == ChangeId(NvimPid, calls[c].bufnr)
Pending(k) == \E w \in WsIds : \E r \in diffPromises[w] : r.changeId = k

\* C1: for every change id, over all interleavings of accept, drop and the
\* wipeout-triggered drop, at most one of the calls returns true.
C1_AtMostOneTrue == \A b \in BufIds : trueCount[b] <= 1

\* C2: the resolve function stored in a diff record is invoked at most once.
C2_ResolveAtMostOnce == \A d \in DiffIds : diffs[d].resolves <= 1

\* C3: every suspended openDiff call eventually completes (FILE_SAVED or
\* DIFF_REJECTED); none stays suspended forever.
C3_EventuallyResolved ==
  \A d \in DiffIds : (diffs[d].pc = "suspended") ~> (diffs[d].pc = "done")

\* C4: once stop() has completed, none of the openDiff calls that were pending
\* when it was called is still suspended, and no record of theirs is left.
C4_StopCompletesPending ==
  \A g \in MgrIds :
    stopH[g].pc = "done" =>
      \A d \in stopH[g].pending :
        /\ diffs[d].pc # "suspended"
        /\ ~Pending(ChangeId(NvimPid, diffs[d].bufnr))

\* C5: no suspended openDiff call waits on a buffer that no longer exists
\* (a wipeout handler still on its way to the record is given the time to arrive).
C5_NoOrphan ==
  \A d \in DiffIds :
    diffs[d].pc = "suspended" =>
      \/ diffs[d].bufnr \in bufs
      \/ \E c \in CallIds : /\ calls[c].pc # "idle"
                             /\ calls[c].origin = "BufWipeout"
                             /\ calls[c].bufnr = diffs[d].bufnr

\* C6: when acceptChanges completes the continuation, the payload is
\* [FILE_SAVED, text of the buffer at that moment], the modified flag is clear
\* and the record is gone.
C6_AcceptReturnsCurrentText ==
  [][\A c \in CallIds :
       (calls[c].pc = "accept_setmod" /\ calls'[c].pc = "handler_log_ok") =>
          /\ diffs'[calls[c].rec].result =
                <<"FILE_SAVED", Join(lines'[calls[c].bufnr])>>
          /\ ~modified'[calls[c].bufnr]
          /\ ~Pending(KeyOf(c))']_vars

\* C7: with no human edit, an accepted openDiff(c) resolves with FILE_SAVED
\* and content exactly c, whichever optional editor commands exist.
C7_RoundTrip ==
  \A d \in DiffIds :
    (diffs[d].pc = "done" /\ diffs[d].result[1] = "FILE_SAVED") =>
       diffs[d].result[2] = diffs[d].contents

\* C8: a dropChanges that found the record pending does not fail, never reads
\* the text, and ends with the call completed as [DIFF_REJECTED] and the
\* record removed.
C8_DropSucceeds ==
  \A c \in CallIds :
    (calls[c].kind = "drop" /\ calls[c].saw) =>
       /\ calls[c].pc # "handler_log_fail"
       /\ ~calls[c].read
       /\ calls[c].pc = "handler_log_ok" =>
             /\ diffs[calls[c].rec].result = <<"DIFF_REJECTED">>
             /\ ~Pending(KeyOf(c))

\* C9: acceptChanges(k) / dropChanges(k) for a key with no pending record in
\* any session returns false and changes no pending table, no continuation,
\* no session set and no buffer state.
C9_NoRecordIsNoOp ==
  [][\A c \in CallIds :
       ( /\ calls[c].pc = "getpid" /\ calls'[c] # calls[c]
         /\ serverManager # 0
         /\ ~Pending(KeyOf(c)) ) =>
          /\ calls'[c].pc \in {"log_end", "idle"}
          /\ ~calls'[c].saw
          /\ UNCHANGED <<diffPromises, diffs, trueCount, clientServers,
                         changeHandlers, bufs, lines, modified>>]_vars

\* a command on a buffer without a record has returned false while another
\* buffer's diff is pending
C9_Witness ==
  \E c \in CallIds, d \in DiffIds :
    /\ calls[c].pc = "log_end" /\ calls[c].mgr # 0 /\ ~calls[c].saw
    /\ diffs[d].pc = "suspended" /\ diffs[d].bufnr # calls[c].bufnr

\* C10: an upgrade request whose authorization header is absent or is not the
\* listener's token is answered 401 and creates nothing: no socket reaches
\* handleClient, no handler, no timer, and getClientCount() is unchanged.
C10_UnauthorizedRejected ==
  [][( /\ lastUpgrade' # lastUpgrade
       /\ lastUpgrade'.header # authToken(lastUpgrade'.mgr) ) =>
          /\ lastUpgrade'.status = 401
          /\ \A g \in MgrIds : getClientCount(g)' = getClientCount(g)
          /\ UNCHANGED <<wsState, wsMgr, hc, transportUp, changeHandlers,
                         clientServers, healthCheckIntervals, timers, rpcQueue>>]_vars

\* an upgrade was refused while a session is connected
C10_Witness ==
  /\ lastUpgrade.status = 401
  /\ \E g \in MgrIds : getClientCount(g) = 1

\* the listener of the manager the commands talk to is active (this.wss is set)
ListenerActive == serverManager # 0 /\ wss[serverManager]

\* C11: a start issued while the listener is active is refused as 'already
\* running' and changes nothing: no manager is created, and the listener, the
\* session set, the heartbeat timers and the lock file with its token stay.
C11_StartRefusedWhenRunning ==
  [][( /\ ListenerActive
       /\ \/ nManagers' # nManagers
          \/ lastCmd' # lastCmd /\ lastCmd' \in {"start", "start: already running"} ) =>
          /\ lastCmd' = "start: already running"
          /\ UNCHANGED <<serverManager, nManagers, wss, listening, startPc, stopH,
                         clientServers, healthCheckIntervals, timers,
                         changeHandlers, lockFile, portError, wsVars>>]_vars

\* a start was refused while a session with its timer is connected
C11_Witness ==
  /\ lastCmd = "start: already running"
  /\ ListenerActive
  /\ lockFile = authToken(serverManager)
  /\ getClientCount(serverManager) = 1
  /\ timers # {}

\* C12: a stop issued while no listener is active is refused as 'not running'
\* and has no other effect; so is a stop issued after a stop has completed.
C12_StopRefusedWhenNotRunning ==
  [][( /\ ~ListenerActive
       /\ \/ \E g \in MgrIds : stopH[g].pc = "idle" /\ stopH'[g].pc # "idle"
          \/ lastCmd' # lastCmd /\ lastCmd' \in {"stop", "stop: not running"} ) =>
          /\ lastCmd' = "stop: not running"
          /\ UNCHANGED <<serverManager, nManagers, wss, listening, startPc, stopH,
                         clientServers, healthCheckIntervals, timers,
                         changeHandlers, lockFile, portError, wsVars>>]_vars

\* a stop was refused after an earlier stop had completed
C12_Witness ==
  /\ lastCmd = "stop: not running"
  /\ \E g \in MgrIds : stopH[g].pc = "done"

\* C13: a start whose port is already bound does not complete as a start that
\* succeeded: once it has returned, the manager is not running.
C13_BindFailureStops ==
  \A g \in portError : startPc[g] = "done" => ~isRunning(g)

\* C14: once stop() has completed, the manager is not running, its session set
\* is empty, none of its heartbeat timers is active and every socket its
\* listener accepted is closed.
C14_StoppedIsClean ==
  \A g \in MgrIds :
    stopH[g].pc = "done" =>
      /\ ~isRunning(g)
      /\ getClientCount(g) = 0
      /\ healthCheckIntervals[g] = {}
      /\ \A w \in WsIds : wsMgr[w] = g => (w \notin timers /\ wsState[w] = "CLOSED")

\* socket w is a key of some manager's session set
InSessionSet(w) == \E g \in MgrIds : \E i \in 1..Len(clientServers[g]) : clientServers[g][i] = w

\* C16: once the socket of an accepted connection has closed, its session
\* eventually is absent from the session set and its heartbeat timer cancelled.
C16_ClosedSessionRemoved ==
  \A w \in WsIds :
    (wsState[w] = "CLOSED") ~> (~InSessionSet(w) /\ w \notin timers)

\* C17: once the failure of a heartbeat probe has been handled, the session's
\* timer is cancelled and its socket is no longer open; no further probe is
\* sent on it; and the session eventually leaves the session set.
C17_FailedProbeClosesSession ==
  /\ [](\A w \in WsIds :
          probe[w] = "handled" => (w \notin timers /\ wsState[w] # "OPEN"))
  /\ [][\A w \in WsIds :
          probe[w] = "handled" => (pingId'[w] = pingId[w] /\ stream'[w] = stream[w])]_vars
  /\ \A w \in WsIds : (probe[w] = "handled") ~> ~InSessionSet(w)

\* a probe failed after an earlier one was written, and the session is gone
C17_Witness ==
  \E w \in WsIds :
    /\ probe[w] = "handled" /\ stream[w] # <<>>
    /\ onclose[w] = "done" /\ ~InSessionSet(w)

\* an openDiff call that is neither unused nor suspended nor over
InFlight(d) == diffs[d].pc \notin {"idle", "suspended", "done", "failed"}

\* C18: while an openDiff call is suspended, the listener still accepts a
\* connection, every open session still gets its tool calls started, the
\* editor's next reply still resumes its handler, and every heartbeat timer
\* still fires, whatever was sent before; and every tool call in flight is
\* carried on to its end.
C18_SuspendedCallBlocksNothing ==
  /\ []((\E d \in DiffIds : diffs[d].pc = "suspended") =>
         /\ \A g \in MgrIds :
               (listening[g] /\ NewWs \in WsIds) => ENABLED WsConnect(g, authToken(g))
         /\ \A w \in WsIds :
               (w \in timers /\ wsState[w] = "OPEN" /\ pingId[w] < MaxPings) =>
                  ENABLED Tick(w)
         /\ \A w \in WsIds :
               (w \in transportUp /\ wsState[w] = "OPEN" /\ FreeDiffs # {}) =>
                  ENABLED (\E c \in Contents : OpenDiff_Call(w, c))
         /\ rpcQueue # <<>> => ENABLED (StartStep \/ SessionStep \/ DiffStep \/ Log_Reply))
  /\ \A d \in DiffIds : InFlight(d) ~> ~InFlight(d)

\* two sessions have each a suspended openDiff call and a probe on the wire
C18_Witness ==
  \E d1, d2 \in DiffIds :
    /\ diffs[d1].pc = "suspended" /\ diffs[d2].pc = "suspended"
    /\ diffs[d1].ws # diffs[d2].ws
    /\ stream[diffs[d1].ws] # <<>> /\ stream[diffs[d2].ws] # <<>>

\* socket w is a key of the session set of manager g
InSessionsOf(g, w) == \E i \in 1..Len(clientServers[g]) : clientServers[g][i] = w

Started(g) == startPc[g] \notin {"none", "getcwd"}

\* C15: from the start of a server that holds the port until its stop is
\* called, the lock file exists with the content written at that start; and
\* once every server that was started has completed its stop, no file is left.
C15_LockFileLifetime ==
  /\ \A g \in MgrIds :
        (Started(g) /\ g \notin portError /\ stopH[g].pc = "idle") =>
           lockFile = authToken(g)
  /\ (\A g \in MgrIds : Started(g) => stopH[g].pc = "done") => lockFile = 0


\* C21: stopSelectionTracking(A) sends the empty selection_changed for A only
\* if the latest selection_changed sent for A was not empty, and it calls
\* sendEmptySelection(A) whenever that one was not empty.
C21_EmptyIffLastNonEmpty ==
  [][\A h \in NoteIds :
       (AtHead(<<"note", h>>) /\ notes[h].kind = "untrack") =>
          /\ (notes[h].pc = "getcurpos" /\ stream' # stream) =>
                lastSent[notes[h].mgr][notes[h].bufnr] = "nonempty"
          /\ (/\ notes[h].pc = "buffer" /\ notes'[h] # notes[h]
              /\ serverManager # 0
              /\ curBuf \in selectionTracking[serverManager]
              /\ wss[serverManager]
              /\ lastSent[serverManager][curBuf] = "nonempty") =>
                notes'[h].pc = "buffers"]_vars

\* C22: when ws.send throws for one session in a fan-out loop, every other
\* open session of the set still gets the notification, and the session set,
\* the timers and the listener stay as they are; when a probe fails, only its
\* own timer and socket change.
C22_FailureIsConfined ==
  [][/\ (lastFanOut' # lastFanOut /\ lastFanOut'.threw # 0) =>
          /\ \A w \in WsIds \ {lastFanOut'.threw} :
                (InSessionsOf(lastFanOut'.mgr, w) /\ IsOpen(w)) =>
                   stream'[w] = Append(stream[w], <<"note", lastFanOut'.n>>)
          /\ clientServers' = clientServers
          /\ timers' = timers /\ listening' = listening
     /\ \A w \in WsIds :
          (probe'[w] = "handled" /\ probe[w] # "handled") =>
             /\ clientServers' = clientServers /\ listening' = listening
             /\ timers' = timers \ {w}
             /\ \A w2 \in WsIds \ {w} :
                  wsState'[w2] = wsState[w2] /\ stream'[w2] = stream[w2]]_vars

\* C23: over the pending tables of all sessions there is at most one record
\* per key pid/bufnr, and no two openDiff calls are ever given the same key.
C23_OneRecordPerKey ==
  /\ \A w1 \in WsIds, w2 \in WsIds :
       \A r1 \in diffPromises[w1], r2 \in diffPromises[w2] :
          r1.changeId = r2.changeId => (w1 = w2 /\ r1 = r2)
  /\ \A d1 \in DiffIds, d2 \in DiffIds :
       (d1 # d2 /\ diffs[d1].bufnr # 0 /\ diffs[d2].bufnr # 0) =>
          ChangeId(NvimPid, diffs[d1].bufnr) # ChangeId(NvimPid, diffs[d2].bufnr)

\* two sessions hold a pending record each while both diff buffers exist
C23_Witness ==
  \E w1 \in WsIds, w2 \in WsIds :
    /\ w1 # w2
    /\ \E r1 \in diffPromises[w1], r2 \in diffPromises[w2] :
         r1.bufnr \in bufs /\ r2.bufnr \in bufs /\ r1.changeId # r2.changeId

\* C24: when closeAllDiffTabs returns, the number in its result is the number of
\* diff records that were pending in any session when it was called, and none
\* of those records is pending any more.
C24_ClosesEveryPendingDiff ==
  [][(lastReply' # lastReply /\ lastReply'.tool = "closeAllDiffTabs") =>
        /\ lastReply'.closedCount = Cardinality(lastReply'.pending)
        /\ lastReply'.pending \cap AllPending' = {}]_vars

\* no buffer of the editor carries the name
NoBufferNamed(name) ==
  \A b \in bufs : \A d \in DiffIds : ~(d = name /\ diffs[d].named /\ diffs[d].bufnr = b)

\* C25: a close_tab call whose name matches no buffer when the editor looks it
\* up returns TAB_CLOSED at that step, without error, and the step changes no
\* buffer, no diff record and no openDiff call; so does every further such call.
C25_MissingTabIsNoOp ==
  [][\A t \in ToolIds :
       (/\ AtHead(<<"tool", t>>)
        /\ toolCalls[t].tool = "close_tab" /\ toolCalls[t].pc = "bufnr"
        /\ NoBufferNamed(toolCalls[t].name)
        /\ toolCalls'[t] # toolCalls[t]) =>
          /\ toolCalls'[t] = NoToolCall
          /\ lastReply' = [NoReply EXCEPT !.ws = toolCalls[t].ws, !.tool = "close_tab",
                                          !.text = "TAB_CLOSED",
                                          !.name = toolCalls[t].name]
          /\ UNCHANGED <<editorVars, unlisted, diffPromises, diffs>>]_vars

\* a call for the name no buffer carries has returned TAB_CLOSED and the next
\* such call is on its way, while a diff is pending in a named, listed buffer
C25_Witness ==
  /\ lastReply.tool = "close_tab" /\ lastReply.name = 0
  /\ lastReply.text = "TAB_CLOSED"
  /\ \E t \in ToolIds : /\ toolCalls[t].tool = "close_tab" /\ toolCalls[t].name = 0
                        /\ toolCalls[t].pc = "bufnr"
  /\ \E d \in DiffIds : /\ diffs[d].pc = "suspended" /\ diffs[d].named
                        /\ diffs[d].bufnr \in bufs \ unlisted
                        /\ diffs[d].bufnr \in AllPending

\* C26: tearing down a session that is closed already is a no-op.  stop() never
\* waits for a socket that is CLOSED, and such a socket stays CLOSED and gets no
\* second run of its close handler; a close handler that finds its session
\* removed changes neither the session set nor the heartbeat timers, and
\* neither step logs an error.
C26_TeardownIsIdempotent ==
  [][\A w \in WsIds :
       /\ wsState[w] = "CLOSED" =>
             /\ wsState'[w] = "CLOSED"
             /\ \A g \in MgrIds :
                  (stopH'[g] # stopH[g] /\ stopH'[g].pc = "closing") => stopH'[g].cur # w
             /\ onclose'[w] # onclose[w] => onclose'[w] = "done"
       /\ (/\ AtHead(<<"onclose", w>>) /\ onclose'[w] # onclose[w]
           /\ ~InSessionSet(w)) =>
             /\ UNCHANGED <<clientServers, healthCheckIntervals, timers>>
             /\ rpcQueue' = Tail(rpcQueue)]_vars

\* the close handler of a closed socket is about to run and finds its session
\* removed by a stop() that went past it, while another session is in the set
C26_Witness ==
  \E w \in WsIds :
    /\ wsState[w] = "CLOSED" /\ ~InSessionSet(w)
    /\ AtHead(<<"onclose", w>>) /\ onclose[w] = "log_disconnected"
    /\ stopH[wsMgr[w]].pc # "idle"
    /\ \E w2 \in WsIds \ {w} : InSessionSet(w2) /\ w2 \in timers

\* C27: a status command, which calls isRunning() and getClientCount(), leaves
\* the listener, the session set, the heartbeat timers, the pending diff tables,
\* the tracking set and lastSelectionBuffer as they were; it reports a running
\* server exactly when the manager holds a listener object, and then the number
\* of sessions in the session set.
C27_QueriesArePure ==
  [][lastStatus' # lastStatus =>
        /\ UNCHANGED <<wss, listening, clientServers, healthCheckIntervals, timers,
                       diffPromises, selectionTracking, lastSelectionBuffer>>
        /\ lastStatus'.said = "running" <=> (serverManager # 0 /\ wss[serverManager])
        /\ lastStatus'.said = "running" =>
              lastStatus'.clients =
                 Cardinality({w \in WsIds : InSessionsOf(serverManager, w)})]_vars

\* the status command has reported a running server with a session, and one
\* that has disconnected since is in no count
C27_Witness ==
  /\ lastStatus.said = "running" /\ lastStatus.clients = 1
  /\ \E t \in ToolIds : toolCalls[t].tool = "status"
  /\ \E w \in WsIds : onclose[w] = "done"

StopCloses(g, w) ==
  /\ stopH'[g] # stopH[g] /\ stopH'[g].pc = "closing" /\ stopH'[g].cur = w
  /\ wsState[w] = "OPEN" /\ wsState'[w] = "CLOSING"

C31_RecordBeforeSurface ==
  \A d \in DiffIds :
    (diffs[d].pc \notin {"idle", "done", "failed"} /\ diffs[d].bufnr \in hook) =>
       /\ Pending(ChangeId(NvimPid, diffs[d].bufnr))
       /\ \A c \in CallIds :
            (calls[c].pc = "log_end" /\ calls[c].mgr # 0 /\ calls[c].bufnr = diffs[d].bufnr)
              => calls[c].saw

\* C32: a motion handler that learns its buffer goes on to relay a selection
\* only if the buffer is in the tracking set of a running server; for an
\* untracked buffer it returns at once: nothing is written to any socket, no
\* relay is entered, and lastSelectionBuffer and the tracking set stay as they are.
C32_UntrackedSendsNothing ==
  [][\A h \in NoteIds :
       ( /\ notes[h].kind = "selection" /\ notes[h].pc = "buffer"
         /\ notes'[h] # notes[h] ) =>
          /\ notes'[h].pc = "buffers" =>
               /\ serverManager # 0 /\ wss[serverManager]
               /\ curBuf \in selectionTracking[serverManager]
               /\ notes'[h].bufnr = curBuf
          /\ (serverManager # 0 /\ curBuf \notin selectionTracking[serverManager]) =>
               /\ notes'[h] = NoNote
               /\ UNCHANGED <<stream, lastSelectionBuffer, selectionTracking,
                              nRelay, lastFanOut, lastSent>>]_vars

\* a motion event has been handled and nothing was ever relayed, while the
\* server runs with a client connected and tracks a buffer other than the
\* one the user is in
C32_Witness ==
  /\ nEvents >= 1 /\ NotesIdle /\ nRelay = 0
  /\ ManagerRunning /\ Reaches(serverManager)
  /\ selectionTracking[serverManager] # {}
  /\ curBuf \notin selectionTracking[serverManager]
  /\ \A w \in WsIds : \A i \in 1..Len(stream[w]) : stream[w][i][1] # "note"

PingIds(w) ==
  LET pings == SelectSeq(stream[w], LAMBDA m : m[1] = "ping")
  IN [i \in 1..Len(pings) |-> pings[i][2]]

\* C34: the probes written to a session's socket carry strictly increasing
\* identifiers, each one the number of sends the session's timer made before
\* it, counted from 0; a probe is written only to a socket that is OPEN; and
\* while the socket is not OPEN no step, a tick of its timer included, writes
\* a probe or uses up an identifier.
C34_ProbeIdsIncrease ==
  /\ [](\A w \in WsIds :
          /\ \A i, j \in 1..Len(PingIds(w)) : i < j => PingIds(w)[i] < PingIds(w)[j]
          /\ \A i \in 1..Len(PingIds(w)) : PingIds(w)[i] < pingId[w])
  /\ [][\A w \in WsIds :
          /\ PingIds(w)' # PingIds(w) =>
               /\ wsState[w] = "OPEN"
               /\ PingIds(w)' = Append(PingIds(w), pingId[w])
               /\ pingId'[w] = pingId[w] + 1
          /\ pingId'[w] # pingId[w] =>
               (wsState[w] = "OPEN" /\ pingId'[w] = pingId[w] + 1)
          /\ wsState[w] # "OPEN" =>
               (pingId'[w] = pingId[w] /\ PingIds(w)' = PingIds(w))]_vars

\* two probes are on the wire of a socket that has closed while its timer is
\* still armed
C34_Witness ==
  \E w \in WsIds :
    /\ PingIds(w) = <<0, 1>>
    /\ w \in timers /\ wsState[w] # "OPEN"

\* C35: while the listener of a manager holds the port, the lock file of the
\* port carries the token that this listener compares the authorization
\* header against, so a client that presents the file's token is accepted.
C35_FileTokenIsListenerToken ==
  \A g \in MgrIds :
    listening[g] => (lockFile = authToken(g) /\ verifyClient(g, lockFile))

\* C36: however start commands overlap, at most one manager has a listener,
\* that manager is the one the commands reach, and at most one start that has
\* not been stopped has created a listener and written the lock file.
C36_OneListenerOneManager ==
  /\ Cardinality({g \in MgrIds : wss[g]}) <= 1
  /\ \A g \in MgrIds : wss[g] => serverManager = g
  /\ Cardinality({g \in MgrIds : Started(g) /\ stopH[g].pc # "done"}) <= 1

\* the handlers that take buffers out of the tracking set are all over
StopsOver ==
  /\ \A h \in NoteIds : ~(notes[h].kind = "untrack" /\ notes[h].pc # "idle")
  /\ \A c \in CallIds : calls[c].pc \notin {"untrack_buffers", "untrack_log"}

\* C37: once stopSelectionTracking(b) has completed, and until tracking is
\* started again for b, lastSelectionBuffer is not b and no handler writes a
\* selection_changed for b to a socket: a relay for b that was in flight when
\* tracking was stopped sends nothing afterwards.
C37_NoSelectionAfterStop ==
  /\ [](\A g \in MgrIds, b \in BufIds :
          (b \notin selectionTracking[g] /\ StopsOver) => lastSelectionBuffer[g] # b)
  /\ [][\A h \in NoteIds :
          ( /\ AtHead(<<"note", h>>) /\ notes[h].kind = "selection"
            /\ notes[h].pc \in {"getline", "getcurpos"}
            /\ stream' # stream /\ StopsOver ) =>
             notes[h].bufnr \in selectionTracking[notes[h].mgr]]_vars

\* C38: an acceptChanges that found the record and fails (its buffer is gone
\* when the editor answers) leaves the record in the table and the openDiff
\* call waiting, and returns false; the buffer stays gone, and a dropChanges for
\* the key that looks the record up afterwards finds it, takes the branch
\* without setOption, removes the record, completes the call with
\* [DIFF_REJECTED] and returns true.
C38_FailedAcceptKeepsRecord ==
  /\ [](\A c \in CallIds :
          (calls[c].kind = "accept" /\ calls[c].pc = "handler_log_fail") =>
             calls[c].bufnr \notin bufs)
  /\ [][\A c \in CallIds :
          /\ ( /\ calls[c].kind = "accept"
               /\ calls[c].pc \in {"accept_buffers", "accept_lines", "accept_setmod"}
               /\ calls'[c].pc = "handler_log_fail" ) =>
                UNCHANGED <<diffPromises, diffs, trueCount, modified, lines>>
          /\ ( /\ calls[c].kind = "accept" /\ calls[c].pc = "handler_log_fail"
               /\ calls'[c] # calls[c] ) =>
                /\ calls'[c].pc = "log_end"
                /\ UNCHANGED <<diffPromises, diffs, trueCount>>
          /\ ( /\ calls[c].kind = "drop" /\ calls[c].pc = "getpid" /\ calls'[c] # calls[c]
               /\ serverManager # 0 /\ calls[c].bufnr \notin bufs
               /\ Pending(KeyOf(c)) ) =>
                calls'[c].pc = "drop_buffers"
          /\ ( /\ calls[c].kind = "drop" /\ calls[c].pc = "drop_buffers"
               /\ calls'[c] # calls[c] /\ calls[c].bufnr \notin bufs ) =>
                /\ calls'[c].pc = "handler_log_ok"
                /\ ~Pending(KeyOf(c))'
                /\ Pending(KeyOf(c)) =>
                     /\ diffs'[calls[c].rec].pc = "done"
                     /\ diffs'[calls[c].rec].result = <<"DIFF_REJECTED">>
          /\ ( /\ calls[c].kind = "drop" /\ calls[c].pc = "handler_log_ok"
               /\ calls'[c] # calls[c] ) =>
                trueCount'[calls[c].bufnr] > trueCount[calls[c].bufnr]]_vars

\* ClaudeAccept found the record, failed and is about to report it, and the
\* drop that came after it has completed the openDiff call as rejected
C38_Witness ==
  \E c1, c2 \in CallIds, d \in DiffIds :
    /\ calls[c1].kind = "accept" /\ calls[c1].saw /\ calls[c1].pc = "log_end"
    /\ calls[c2].kind = "drop" /\ calls[c2].pc = "handler_log_ok"
    /\ calls[c2].bufnr = calls[c1].bufnr /\ calls[c2].rec = d
    /\ diffs[d].pc = "done" /\ diffs[d].result = <<"DIFF_REJECTED">>
    /\ ~Pending(KeyOf(c1))

\* socket w has closed, and its handler, which manager g still has, holds the
\* pending record the call c is about
OwnerGone(c, w, g) ==
  /\ wsState[w] = "CLOSED"
  /\ \E r \in diffPromises[w] : r.changeId = KeyOf(c)
  /\ g \in MgrIds
  /\ \E i \in 1..Len(changeHandlers[g]) : changeHandlers[g][i] = w

\* C39: the close of a client's socket and its close handler leave every
\* pending table, every openDiff call and the manager's change handlers as they
\* are, and take only that session and its timer out of the session set; a
\* decision whose record belongs to a client that has disconnected still finds
\* the record, and when it succeeds the record is removed and true is returned.
C39_DisconnectKeepsPending ==
  [][/\ \A w \in WsIds :
          ( \/ (wsState[w] # "CLOSED" /\ wsState'[w] = "CLOSED")
            \/ onclose'[w] # onclose[w] ) =>
             UNCHANGED <<diffPromises, changeHandlers, diffs, trueCount>>
     /\ \A w \in WsIds :
          (onclose[w] = "log_disconnected" /\ onclose'[w] = "done") =>
             /\ clientServers' = [clientServers EXCEPT ![wsMgr[w]] = Remove(@, w)]
             /\ healthCheckIntervals' =
                  [healthCheckIntervals EXCEPT ![wsMgr[w]] = @ \ {w}]
             /\ timers \ {w} \subseteq timers' /\ timers' \subseteq timers
     /\ \A c \in CallIds, w \in WsIds :
          /\ ( /\ calls[c].pc = "getpid" /\ calls'[c] # calls[c]
               /\ OwnerGone(c, w, serverManager) ) =>
                /\ calls'[c].saw
                /\ calls'[c].pc \in {"accept_buffers", "drop_buffers"}
          /\ ( /\ calls[c].pc # "handler_log_ok" /\ calls'[c].pc = "handler_log_ok"
               /\ OwnerGone(c, w, calls[c].mgr) ) =>
                /\ diffPromises'[w] = {r \in diffPromises[w] : r.changeId # KeyOf(c)}
                /\ diffs'[calls[c].rec].pc = "done"
     /\ \A c \in CallIds :
          (calls[c].pc = "handler_log_ok" /\ calls'[c] # calls[c]) =>
             trueCount'[calls[c].bufnr] > trueCount[calls[c].bufnr]]_vars

\* a decision has completed the openDiff call of a client whose socket had
\* closed and whose close handler had run, while the server goes on
C39_Witness ==
  \E c \in CallIds, d \in DiffIds :
    /\ calls[c].pc = "handler_log_ok" /\ calls[c].rec = d
    /\ diffs[d].pc = "done"
    /\ wsState[diffs[d].ws] = "CLOSED" /\ onclose[diffs[d].ws] = "done"
    /\ ~InSessionSet(diffs[d].ws)
    /\ ManagerRunning /\ stopH[serverManager].pc = "idle"
    /\ ~Pending(KeyOf(c))

\* C40: for every manager the sockets with an entry in healthCheckIntervals
\* are the sockets of clientServers, no socket has two entries, and a socket
\* whose session setup failed is in neither.
C40_IntervalsMatchSessions ==
  \A g \in MgrIds :
    /\ healthCheckIntervals[g] = {clientServers[g][i] : i \in 1..Len(clientServers[g])}
    /\ Cardinality(healthCheckIntervals[g]) = Len(clientServers[g])
    /\ \A w \in WsIds :
         (wsMgr[w] = g /\ hc[w] \in {"log_error", "failed"}) =>
            (w \notin healthCheckIntervals[g] /\ ~InSessionsOf(g, w))

\* one session is in both maps with its timer cancelled by a failed probe,
\* after another session was taken out of both by its close handler
C40_Witness ==
  \E g \in MgrIds, w1, w2 \in WsIds :
    /\ InSessionsOf(g, w1) /\ w1 \in healthCheckIntervals[g] /\ w1 \notin timers
    /\ wsMgr[w2] = g /\ onclose[w2] = "done"
    /\ ~InSessionsOf(g, w2) /\ w2 \notin healthCheckIntervals[g]

=============================================================================
